---------------------------- MODULE Spec2Model ----------------------------
(***************************************************************************)
(* Acceleration-model assembly of Tudat (simulation_setup).                *)
(*                                                                         *)
(* Two generations of the assembly code are present in the sources:        *)
(*   - the legacy file (src/unnamed/part_000), whose definitions carry the *)
(*     suffix Legacy here, and                                             *)
(*   - the newer createAccelerationModels code (the second half of         *)
(*     createLightTimeCalculator.h).                                       *)
(*                                                                         *)
(* Bodies are records of their capabilities.  The builders that only read  *)
(* bodies take the records (NullBody for a NULL pointer); the builders     *)
(* that write to a body take the body map and the body's name and return   *)
(* the body map they leave.  An exception is a result with ok = FALSE.     *)
(* Objects created during assembly (flight conditions, guidance objects)   *)
(* are identified by fresh positive integers; 0 is the NULL pointer.       *)
(***************************************************************************)
EXTENDS Integers, Sequences, FiniteSets, TLC

VARIABLES
    bodyMap,        \* NamedBodyMap: body name -> Body
    interpolators,  \* thrust direction interpolators: object -> bound rotation function
    nextObject,     \* identity given to the next object created on the heap
    call,           \* record of the top-level function invocation made last
    numberOfCalls   \* number of top-level invocations made so far

vars == <<bodyMap, interpolators, nextObject, call, numberOfCalls>>

(***************************************************************************)
(* Names                                                                   *)
(***************************************************************************)
\* Bodies held by the body map of every environment considered.
BodyNames == {"Earth", "Moon", "Sat"}

\* A name that no body map holds.
AbsentName == "Venus"

\* The frame names isFrameInertial recognises.
InertialNames == {"SSB", "", "Inertial"}

\* std::map iterates its keys in increasing (lexicographic) order.
NameOrder == <<"Earth", "Moon", "Sat", "Venus">>

SortedKeys(S) == SelectSeq(NameOrder, LAMBDA n : n \in S)

(***************************************************************************)
(* Acceleration types and settings                                         *)
(***************************************************************************)
central_gravity == "central_gravity"
spherical_harmonic_gravity == "spherical_harmonic_gravity"
mutual_spherical_harmonic_gravity == "mutual_spherical_harmonic_gravity"
aerodynamic == "aerodynamic"
cannon_ball_radiation_pressure == "cannon_ball_radiation_pressure"
thrust_acceleration == "thrust_acceleration"
undefined_acceleration == "undefined_acceleration"

GravityTypes ==
    {central_gravity, spherical_harmonic_gravity, mutual_spherical_harmonic_gravity}

\* The classes of the settings hierarchy (the target of a dynamic_pointer_cast).
BaseSettingsClass == "AccelerationSettings"
SphericalHarmonicSettingsClass == "SphericalHarmonicAccelerationSettings"
MutualSphericalHarmonicSettingsClass == "MutualSphericalHarmonicAccelerationSettings"
ThrustSettingsClass == "ThrustAccelerationSettings"

\* Settings of the base class: a type tag only.
AccelerationSettings(type) ==
    [class |-> BaseSettingsClass, accelerationType_ |-> type]

SphericalHarmonicAccelerationSettings(degree, order) ==
    [class |-> SphericalHarmonicSettingsClass,
     accelerationType_ |-> spherical_harmonic_gravity,
     maximumDegree_ |-> degree, maximumOrder_ |-> order]

MutualSphericalHarmonicAccelerationSettings(degE, ordE, degU, ordU, degC, ordC) ==
    [class |-> MutualSphericalHarmonicSettingsClass,
     accelerationType_ |-> mutual_spherical_harmonic_gravity,
     maximumDegreeOfBodyExertingAcceleration_ |-> degE,
     maximumOrderOfBodyExertingAcceleration_ |-> ordE,
     maximumDegreeOfBodyUndergoingAcceleration_ |-> degU,
     maximumOrderOfBodyUndergoingAcceleration_ |-> ordU,
     maximumDegreeOfCentralBody_ |-> degC,
     maximumOrderOfCentralBody_ |-> ordC]

(***************************************************************************)
(* Results of a builder: a model, or the exception it throws               *)
(***************************************************************************)
NoModel == [type |-> "NULL"]

Ok(model) == [ok |-> TRUE, model |-> model, error |-> "none"]

Throw(error) == [ok |-> FALSE, model |-> NoModel, error |-> error]

\* The std::runtime_error messages of the sources, by what they report.
MissingCapability == "MissingCapability"       \* a body lacks an environment model
SettingsInconsistent == "SettingsInconsistent" \* tag and settings class disagree
NoRotationModel == "NoRotationModel"           \* "no rotation model found for"
FrameMismatch == "FrameMismatch"               \* "rotation model ... is incompatible"
NotRecognized == "NotRecognized"               \* "acceleration model ... not recognized"
NoThirdBodySphericalHarmonic == "NoThirdBodySphericalHarmonic" \* "cannot yet make third body ..."
TypeInconsistent == "TypeInconsistent"         \* "type is inconsistent" / "cannot parse type"
LookupError == "LookupError"                   \* "no such body found in map of bodies"
OrderingError == "OrderingError"               \* "cannot yet handle multple aerodynamic and thrust"

(***************************************************************************)
(* Bodies                                                                  *)
(***************************************************************************)
\* Kinds of gravity field a body may own.
NoField == "NULL"
PointField == "GravityFieldModel"
SphericalHarmonicsField == "SphericalHarmonicsGravityField"

NoEphemeris == "NULL"

\* Gravitational parameters: sums of distinct bodies' values are unambiguous.
MuOf == [n \in BodyNames |->
            CASE n = "Earth" -> 4 [] n = "Moon" -> 2 [] OTHER -> 1]

FixedFrameOf == [n \in BodyNames |->
            CASE n = "Earth" -> "IAU_Earth" [] n = "Moon" -> "IAU_Moon" [] OTHER -> "Sat_Fixed"]

OtherFrame == "ECLIPJ2000"

NullBody == [name |-> "NULL"]

\* A body without any environment model.
BareBody(n) ==
    [name |-> n,
     gravityFieldModel |-> NoField,
     gravitationalParameter |-> MuOf[n],
     fixedReferenceFrame |-> FixedFrameOf[n],
     rotationalEphemeris |-> NoEphemeris,
     aerodynamicCoefficientInterface |-> FALSE,
     atmosphereModel |-> FALSE,
     shapeModel |-> FALSE,
     radiationPressureInterfaces |-> {},
     flightConditions |-> 0,
     dependentOrientationCalculator |-> 0]

\* The gravity-related equipment of a body: its field and, for a spherical
\* harmonics field, the target frame of its rotational ephemeris (the ephemeris
\* is read only after the field was found to be a spherical harmonics one).
GravityKinds ==
    {<<NoField, NoEphemeris>>, <<PointField, NoEphemeris>>,
     <<SphericalHarmonicsField, NoEphemeris>>,
     <<SphericalHarmonicsField, "fixed">>,
     <<SphericalHarmonicsField, OtherFrame>>}

WithGravity(body, kind) ==
    [body EXCEPT !.gravityFieldModel = kind[1],
                 !.rotationalEphemeris =
                     IF kind[2] = "fixed" THEN body.fixedReferenceFrame ELSE kind[2]]

(***************************************************************************)
(* Frame classifier                                                        *)
(***************************************************************************)
isFrameInertial(frame) ==
    IF frame = "SSB" \/ frame = "" \/ frame = "Inertial" THEN TRUE ELSE FALSE


(***************************************************************************)
(* Direct gravity builders (newer code)                                    *)
(***************************************************************************)
\* Variant: the undergoing body's parameter is never added.
gravitationalParameterFunction_ExertingOnly(bodyUndergoingAcceleration, bodyExertingAcceleration, useCentralBodyFixedFrame) ==
    bodyExertingAcceleration.gravitationalParameter

\* The gravitational parameter function bound into a central or spherical
\* harmonic model: the exerting body's own, or the sum of both bodies'.
gravitationalParameterFunction(bodyUndergoingAcceleration, bodyExertingAcceleration, useCentralBodyFixedFrame) ==
    IF useCentralBodyFixedFrame = FALSE
         \/ bodyUndergoingAcceleration.gravityFieldModel = NoField
    THEN bodyExertingAcceleration.gravitationalParameter
    ELSE bodyExertingAcceleration.gravitationalParameter
             + bodyUndergoingAcceleration.gravitationalParameter

\* Variant: the body undergoing the acceleration must have a gravity field too.
createCentralGravityAcceleratioModel_BothFields(bodyUndergoingAcceleration, bodyExertingAcceleration, nameOfBodyUndergoingAcceleration, nameOfBodyExertingAcceleration, useCentralBodyFixedFrame) ==
    IF bodyExertingAcceleration.gravityFieldModel = NoField
         \/ bodyUndergoingAcceleration.gravityFieldModel = NoField
    THEN Throw(MissingCapability)
    ELSE Ok([type |-> central_gravity,
             undergoing |-> nameOfBodyUndergoingAcceleration,
             exerting |-> nameOfBodyExertingAcceleration,
             gravitationalParameter |->
                 gravitationalParameterFunction(bodyUndergoingAcceleration,
                                                bodyExertingAcceleration,
                                                useCentralBodyFixedFrame),
             isMutualAttractionUsed |-> useCentralBodyFixedFrame])

createCentralGravityAcceleratioModel(bodyUndergoingAcceleration, bodyExertingAcceleration, nameOfBodyUndergoingAcceleration, nameOfBodyExertingAcceleration, useCentralBodyFixedFrame) ==
    IF bodyExertingAcceleration.gravityFieldModel = NoField
    THEN Throw(MissingCapability)
    ELSE Ok([type |-> central_gravity,
             undergoing |-> nameOfBodyUndergoingAcceleration,
             exerting |-> nameOfBodyExertingAcceleration,
             gravitationalParameter |->
                 gravitationalParameterFunction(bodyUndergoingAcceleration,
                                                bodyExertingAcceleration,
                                                useCentralBodyFixedFrame),
             isMutualAttractionUsed |-> useCentralBodyFixedFrame])

\* Variant: the frames of the rotational ephemeris and of the field are not compared.
createSphericalHarmonicsGravityAcceleration_NoFrameCheck(bodyUndergoingAcceleration, bodyExertingAcceleration, nameOfBodyUndergoingAcceleration, nameOfBodyExertingAcceleration, accelerationSettings, useCentralBodyFixedFrame) ==
    IF accelerationSettings.class # SphericalHarmonicSettingsClass
    THEN Throw(SettingsInconsistent)
    ELSE IF bodyExertingAcceleration.gravityFieldModel # SphericalHarmonicsField
    THEN Throw(MissingCapability)
    ELSE IF bodyExertingAcceleration.rotationalEphemeris = NoEphemeris
    THEN Throw(NoRotationModel)
    ELSE Ok([type |-> spherical_harmonic_gravity,
             undergoing |-> nameOfBodyUndergoingAcceleration,
             exerting |-> nameOfBodyExertingAcceleration,
             gravitationalParameter |->
                 gravitationalParameterFunction(bodyUndergoingAcceleration,
                                                bodyExertingAcceleration,
                                                useCentralBodyFixedFrame),
             maximumDegree |-> accelerationSettings.maximumDegree_,
             maximumOrder |-> accelerationSettings.maximumOrder_,
             isMutualAttractionUsed |-> useCentralBodyFixedFrame])

\* Variant: a missing rotational ephemeris is not looked for.
createSphericalHarmonicsGravityAcceleration_NoRotationCheck(bodyUndergoingAcceleration, bodyExertingAcceleration, nameOfBodyUndergoingAcceleration, nameOfBodyExertingAcceleration, accelerationSettings, useCentralBodyFixedFrame) ==
    IF accelerationSettings.class # SphericalHarmonicSettingsClass
    THEN Throw(SettingsInconsistent)
    ELSE IF bodyExertingAcceleration.gravityFieldModel # SphericalHarmonicsField
    THEN Throw(MissingCapability)
    ELSE IF bodyExertingAcceleration.rotationalEphemeris
                # bodyExertingAcceleration.fixedReferenceFrame
    THEN Throw(FrameMismatch)
    ELSE Ok([type |-> spherical_harmonic_gravity,
             undergoing |-> nameOfBodyUndergoingAcceleration,
             exerting |-> nameOfBodyExertingAcceleration,
             gravitationalParameter |->
                 gravitationalParameterFunction(bodyUndergoingAcceleration,
                                                bodyExertingAcceleration,
                                                useCentralBodyFixedFrame),
             maximumDegree |-> accelerationSettings.maximumDegree_,
             maximumOrder |-> accelerationSettings.maximumOrder_,
             isMutualAttractionUsed |-> useCentralBodyFixedFrame])

createSphericalHarmonicsGravityAcceleration(bodyUndergoingAcceleration, bodyExertingAcceleration, nameOfBodyUndergoingAcceleration, nameOfBodyExertingAcceleration, accelerationSettings, useCentralBodyFixedFrame) ==
    IF accelerationSettings.class # SphericalHarmonicSettingsClass
    THEN Throw(SettingsInconsistent)
    ELSE IF bodyExertingAcceleration.gravityFieldModel # SphericalHarmonicsField
    THEN Throw(MissingCapability)
    ELSE IF bodyExertingAcceleration.rotationalEphemeris = NoEphemeris
    THEN Throw(NoRotationModel)
    ELSE IF bodyExertingAcceleration.rotationalEphemeris
                # bodyExertingAcceleration.fixedReferenceFrame
    THEN Throw(FrameMismatch)
    ELSE Ok([type |-> spherical_harmonic_gravity,
             undergoing |-> nameOfBodyUndergoingAcceleration,
             exerting |-> nameOfBodyExertingAcceleration,
             gravitationalParameter |->
                 gravitationalParameterFunction(bodyUndergoingAcceleration,
                                                bodyExertingAcceleration,
                                                useCentralBodyFixedFrame),
             maximumDegree |-> accelerationSettings.maximumDegree_,
             maximumOrder |-> accelerationSettings.maximumOrder_,
             isMutualAttractionUsed |-> useCentralBodyFixedFrame])

\* Variant: only the exerting body's field is checked.
createMutualSphericalHarmonicsGravityAcceleration_NoUndergoingCheck(bodyUndergoingAcceleration, bodyExertingAcceleration, nameOfBodyUndergoingAcceleration, nameOfBodyExertingAcceleration, accelerationSettings, useCentralBodyFixedFrame, acceleratedBodyIsCentralBody) ==
    IF accelerationSettings.class # MutualSphericalHarmonicSettingsClass
    THEN Throw(SettingsInconsistent)
    ELSE IF bodyExertingAcceleration.gravityFieldModel # SphericalHarmonicsField
    THEN Throw(MissingCapability)
    ELSE Ok([type |-> mutual_spherical_harmonic_gravity,
             undergoing |-> nameOfBodyUndergoingAcceleration,
             exerting |-> nameOfBodyExertingAcceleration,
             gravitationalParameter |-> bodyExertingAcceleration.gravitationalParameter,
             maximumDegreeOfBodyExertingAcceleration |->
                 accelerationSettings.maximumDegreeOfBodyExertingAcceleration_,
             maximumOrderOfBodyExertingAcceleration |->
                 accelerationSettings.maximumOrderOfBodyExertingAcceleration_,
             maximumDegreeOfUndergoingBody |->
                 accelerationSettings.maximumDegreeOfBodyUndergoingAcceleration_,
             maximumOrderOfUndergoingBody |->
                 accelerationSettings.maximumOrderOfBodyUndergoingAcceleration_,
             isMutualAttractionUsed |-> useCentralBodyFixedFrame])

createMutualSphericalHarmonicsGravityAcceleration(bodyUndergoingAcceleration, bodyExertingAcceleration, nameOfBodyUndergoingAcceleration, nameOfBodyExertingAcceleration, accelerationSettings, useCentralBodyFixedFrame, acceleratedBodyIsCentralBody) ==
    IF accelerationSettings.class # MutualSphericalHarmonicSettingsClass
    THEN Throw(SettingsInconsistent)
    ELSE IF bodyExertingAcceleration.gravityFieldModel # SphericalHarmonicsField
    THEN Throw(MissingCapability)
    ELSE IF bodyUndergoingAcceleration.gravityFieldModel # SphericalHarmonicsField
    THEN Throw(MissingCapability)
    ELSE Ok([type |-> mutual_spherical_harmonic_gravity,
             undergoing |-> nameOfBodyUndergoingAcceleration,
             exerting |-> nameOfBodyExertingAcceleration,
             gravitationalParameter |->
                 IF useCentralBodyFixedFrame = FALSE
                 THEN bodyExertingAcceleration.gravitationalParameter
                 ELSE bodyExertingAcceleration.gravitationalParameter
                          + bodyUndergoingAcceleration.gravitationalParameter,
             maximumDegreeOfBodyExertingAcceleration |->
                 accelerationSettings.maximumDegreeOfBodyExertingAcceleration_,
             maximumOrderOfBodyExertingAcceleration |->
                 accelerationSettings.maximumOrderOfBodyExertingAcceleration_,
             maximumDegreeOfUndergoingBody |->
                 IF ~acceleratedBodyIsCentralBody
                 THEN accelerationSettings.maximumDegreeOfBodyUndergoingAcceleration_
                 ELSE accelerationSettings.maximumDegreeOfCentralBody_,
             maximumOrderOfUndergoingBody |->
                 IF ~acceleratedBodyIsCentralBody
                 THEN accelerationSettings.maximumOrderOfBodyUndergoingAcceleration_
                 ELSE accelerationSettings.maximumOrderOfCentralBody_,
             isMutualAttractionUsed |-> useCentralBodyFixedFrame])

\* Whether the sum of the two gravitational parameters is to be used.
sumGravitationalParameters(bodyUndergoingAcceleration, nameOfBodyExertingAcceleration, nameOfCentralBody) ==
    IF nameOfCentralBody = nameOfBodyExertingAcceleration
         /\ bodyUndergoingAcceleration # NullBody
    THEN TRUE ELSE FALSE

\* Variant: the accelerated body is never taken to be the central body.
createDirectGravitationalAcceleration_NeverCentral(bodyUndergoingAcceleration, bodyExertingAcceleration, nameOfBodyUndergoingAcceleration, nameOfBodyExertingAcceleration, accelerationSettings, nameOfCentralBody, isCentralBody) ==
    LET sum == sumGravitationalParameters(bodyUndergoingAcceleration,
                                          nameOfBodyExertingAcceleration,
                                          nameOfCentralBody)
    IN  CASE accelerationSettings.accelerationType_ = central_gravity ->
               createCentralGravityAcceleratioModel(
                   bodyUndergoingAcceleration, bodyExertingAcceleration,
                   nameOfBodyUndergoingAcceleration, nameOfBodyExertingAcceleration, sum)
          [] accelerationSettings.accelerationType_ = spherical_harmonic_gravity ->
               createSphericalHarmonicsGravityAcceleration(
                   bodyUndergoingAcceleration, bodyExertingAcceleration,
                   nameOfBodyUndergoingAcceleration, nameOfBodyExertingAcceleration,
                   accelerationSettings, sum)
          [] accelerationSettings.accelerationType_ = mutual_spherical_harmonic_gravity ->
               createMutualSphericalHarmonicsGravityAcceleration(
                   bodyUndergoingAcceleration, bodyExertingAcceleration,
                   nameOfBodyUndergoingAcceleration, nameOfBodyExertingAcceleration,
                   accelerationSettings, sum, FALSE)
          [] OTHER -> Throw(TypeInconsistent)

createDirectGravitationalAcceleration(bodyUndergoingAcceleration, bodyExertingAcceleration, nameOfBodyUndergoingAcceleration, nameOfBodyExertingAcceleration, accelerationSettings, nameOfCentralBody, isCentralBody) ==
    LET sum == sumGravitationalParameters(bodyUndergoingAcceleration,
                                          nameOfBodyExertingAcceleration,
                                          nameOfCentralBody)
    IN  CASE accelerationSettings.accelerationType_ = central_gravity ->
               createCentralGravityAcceleratioModel(
                   bodyUndergoingAcceleration, bodyExertingAcceleration,
                   nameOfBodyUndergoingAcceleration, nameOfBodyExertingAcceleration, sum)
          [] accelerationSettings.accelerationType_ = spherical_harmonic_gravity ->
               createSphericalHarmonicsGravityAcceleration(
                   bodyUndergoingAcceleration, bodyExertingAcceleration,
                   nameOfBodyUndergoingAcceleration, nameOfBodyExertingAcceleration,
                   accelerationSettings, sum)
          [] accelerationSettings.accelerationType_ = mutual_spherical_harmonic_gravity ->
               createMutualSphericalHarmonicsGravityAcceleration(
                   bodyUndergoingAcceleration, bodyExertingAcceleration,
                   nameOfBodyUndergoingAcceleration, nameOfBodyExertingAcceleration,
                   accelerationSettings, sum, isCentralBody)
          [] OTHER -> Throw(TypeInconsistent)

(***************************************************************************)
(* Third-body composer (newer code)                                        *)
(***************************************************************************)
\* The composite built from the model on the body undergoing the acceleration
\* and the model on the central body.  An exception thrown while either leg is
\* built leaves the composer; both legs throw the same kind of error whenever
\* both fail, so the unspecified evaluation order of the two arguments does not
\* show in the result.
ThirdBodyAcceleration(family, legUndergoing, legCentral, nameOfCentralBody) ==
    IF ~legUndergoing.ok THEN Throw(legUndergoing.error)
    ELSE IF ~legCentral.ok THEN Throw(legCentral.error)
    ELSE Ok([type |-> "third_body",
             family |-> family,
             accelerationModelForBodyUndergoingAcceleration |-> legUndergoing.model,
             accelerationModelForCentralBody |-> legCentral.model,
             centralBodyName |-> nameOfCentralBody])

\* Variant: the legs are built as if the exerting body were the central body.
createThirdBodyGravitationalAcceleration_CentralLegs(bodyUndergoingAcceleration, bodyExertingAcceleration, centralBody, nameOfBodyUndergoingAcceleration, nameOfBodyExertingAcceleration, nameOfCentralBody, accelerationSettings) ==
    IF accelerationSettings.accelerationType_ \in GravityTypes
    THEN ThirdBodyAcceleration(
             accelerationSettings.accelerationType_,
             createDirectGravitationalAcceleration(
                 bodyUndergoingAcceleration, bodyExertingAcceleration,
                 nameOfBodyUndergoingAcceleration, nameOfBodyExertingAcceleration,
                 accelerationSettings, nameOfBodyExertingAcceleration, FALSE),
             createDirectGravitationalAcceleration(
                 centralBody, bodyExertingAcceleration,
                 nameOfCentralBody, nameOfBodyExertingAcceleration,
                 accelerationSettings, nameOfBodyExertingAcceleration, TRUE),
             nameOfCentralBody)
    ELSE Throw(TypeInconsistent)

createThirdBodyGravitationalAcceleration(bodyUndergoingAcceleration, bodyExertingAcceleration, centralBody, nameOfBodyUndergoingAcceleration, nameOfBodyExertingAcceleration, nameOfCentralBody, accelerationSettings) ==
    IF accelerationSettings.accelerationType_ \in GravityTypes
    THEN ThirdBodyAcceleration(
             accelerationSettings.accelerationType_,
             createDirectGravitationalAcceleration(
                 bodyUndergoingAcceleration, bodyExertingAcceleration,
                 nameOfBodyUndergoingAcceleration, nameOfBodyExertingAcceleration,
                 accelerationSettings, "", FALSE),
             createDirectGravitationalAcceleration(
                 centralBody, bodyExertingAcceleration,
                 nameOfCentralBody, nameOfBodyExertingAcceleration,
                 accelerationSettings, "", TRUE),
             nameOfCentralBody)
    ELSE Throw(TypeInconsistent)

\* The value the last two constructor parameters of
\* MutualSphericalHarmonicAccelerationSettings (maximum degree and order of the
\* central body) take when the constructor is called with four arguments.
DefaultMaximumOfCentralBody == 0

\* The dedicated third-body builder for mutual spherical harmonic gravity.  The
\* settings made for the central body's leg hold the given central-body degree
\* and order in the place of the undergoing body's, and the leg is built with
\* acceleratedBodyIsCentralBody set.
createThirdBodyMutualSphericalHarmonicGravityAccelerationModel(bodyUndergoingAcceleration, bodyExertingAcceleration, centralBody, nameOfBodyUndergoingAcceleration, nameOfBodyExertingAcceleration, nameOfCentralBody, accelerationSettings) ==
    IF accelerationSettings.class # MutualSphericalHarmonicSettingsClass
    THEN Throw(SettingsInconsistent)
    ELSE IF bodyExertingAcceleration.gravityFieldModel # SphericalHarmonicsField
    THEN Throw(MissingCapability)
    ELSE IF bodyUndergoingAcceleration.gravityFieldModel # SphericalHarmonicsField
    THEN Throw(MissingCapability)
    ELSE IF centralBody.gravityFieldModel # SphericalHarmonicsField
    THEN Throw(MissingCapability)
    ELSE LET accelerationSettingsForCentralBodyAcceleration ==
                 MutualSphericalHarmonicAccelerationSettings(
                     accelerationSettings.maximumDegreeOfBodyExertingAcceleration_,
                     accelerationSettings.maximumOrderOfBodyExertingAcceleration_,
                     accelerationSettings.maximumDegreeOfCentralBody_,
                     accelerationSettings.maximumOrderOfCentralBody_,
                     DefaultMaximumOfCentralBody,
                     DefaultMaximumOfCentralBody)
         IN  ThirdBodyAcceleration(
                 mutual_spherical_harmonic_gravity,
                 createMutualSphericalHarmonicsGravityAcceleration(
                     bodyUndergoingAcceleration, bodyExertingAcceleration,
                     nameOfBodyUndergoingAcceleration, nameOfBodyExertingAcceleration,
                     accelerationSettings, FALSE, FALSE),
                 createMutualSphericalHarmonicsGravityAcceleration(
                     centralBody, bodyExertingAcceleration,
                     nameOfCentralBody, nameOfBodyExertingAcceleration,
                     accelerationSettingsForCentralBodyAcceleration, FALSE, TRUE),
                 nameOfCentralBody)

\* Variant: an inertial central body is not recognised.
useDirectModel_ExertingOnly(nameOfBodyExertingAcceleration, nameOfCentralBody) ==
    nameOfCentralBody = nameOfBodyExertingAcceleration

\* The rule choosing between the direct and the third-body model.
useDirectModel(nameOfBodyExertingAcceleration, nameOfCentralBody) ==
    nameOfCentralBody = nameOfBodyExertingAcceleration
        \/ isFrameInertial(nameOfCentralBody)

createGravitationalAccelerationModel(bodyUndergoingAcceleration, bodyExertingAcceleration, accelerationSettings, nameOfBodyUndergoingAcceleration, nameOfBodyExertingAcceleration, centralBody, nameOfCentralBody) ==
    IF accelerationSettings.accelerationType_ \notin GravityTypes
    THEN Throw(TypeInconsistent)
    ELSE IF useDirectModel(nameOfBodyExertingAcceleration, nameOfCentralBody)
    THEN createDirectGravitationalAcceleration(
             bodyUndergoingAcceleration, bodyExertingAcceleration,
             nameOfBodyUndergoingAcceleration, nameOfBodyExertingAcceleration,
             accelerationSettings, nameOfCentralBody, FALSE)
    ELSE createThirdBodyGravitationalAcceleration(
             bodyUndergoingAcceleration, bodyExertingAcceleration, centralBody,
             nameOfBodyUndergoingAcceleration, nameOfBodyExertingAcceleration,
             nameOfCentralBody, accelerationSettings)

(***************************************************************************)
(* Gravity builders of the legacy file                                     *)
(***************************************************************************)
createCentralGravityAcceleratioModelLegacy(bodyUndergoingAcceleration, bodyExertingAcceleration, nameOfBodyUndergoingAcceleration, nameOfBodyExertingAcceleration, useCentralBodyFixedFrame) ==
    IF bodyExertingAcceleration.gravityFieldModel = NoField
    THEN Throw(MissingCapability)
    ELSE Ok([type |-> central_gravity,
             undergoing |-> nameOfBodyUndergoingAcceleration,
             exerting |-> nameOfBodyExertingAcceleration,
             gravitationalParameter |->
                 IF useCentralBodyFixedFrame = FALSE
                      \/ bodyUndergoingAcceleration.gravityFieldModel = NoField
                 THEN bodyExertingAcceleration.gravitationalParameter
                 ELSE bodyExertingAcceleration.gravitationalParameter
                          + bodyUndergoingAcceleration.gravitationalParameter,
             isMutualAttractionUsed |-> useCentralBodyFixedFrame])

\* No rotational ephemeris is looked at here.
createSphericalHarmonicsGravityAccelerationLegacy(bodyUndergoingAcceleration, bodyExertingAcceleration, nameOfBodyUndergoingAcceleration, nameOfBodyExertingAcceleration, accelerationSettings, useCentralBodyFixedFrame) ==
    IF accelerationSettings.class # SphericalHarmonicSettingsClass
    THEN Throw(SettingsInconsistent)
    ELSE IF bodyExertingAcceleration.gravityFieldModel # SphericalHarmonicsField
    THEN Throw(MissingCapability)
    ELSE Ok([type |-> spherical_harmonic_gravity,
             undergoing |-> nameOfBodyUndergoingAcceleration,
             exerting |-> nameOfBodyExertingAcceleration,
             gravitationalParameter |->
                 IF useCentralBodyFixedFrame = FALSE
                      \/ bodyUndergoingAcceleration.gravityFieldModel = NoField
                 THEN bodyExertingAcceleration.gravitationalParameter
                 ELSE bodyExertingAcceleration.gravitationalParameter
                          + bodyUndergoingAcceleration.gravitationalParameter,
             maximumDegree |-> accelerationSettings.maximumDegree_,
             maximumOrder |-> accelerationSettings.maximumOrder_,
             isMutualAttractionUsed |-> useCentralBodyFixedFrame])

createThirdBodyCentralGravityAccelerationModelLegacy(bodyUndergoingAcceleration, bodyExertingAcceleration, centralBody, nameOfBodyUndergoingAcceleration, nameOfBodyExertingAcceleration, nameOfCentralBody) ==
    ThirdBodyAcceleration(
        central_gravity,
        createCentralGravityAcceleratioModelLegacy(
            bodyUndergoingAcceleration, bodyExertingAcceleration,
            nameOfBodyUndergoingAcceleration, nameOfBodyExertingAcceleration, FALSE),
        createCentralGravityAcceleratioModelLegacy(
            centralBody, bodyExertingAcceleration,
            nameOfCentralBody, nameOfBodyExertingAcceleration, FALSE),
        nameOfCentralBody)

\* The gravity cases of the legacy createAccelerationModel.
createGravityCaseLegacy(bodyUndergoingAcceleration, bodyExertingAcceleration, accelerationSettings, nameOfBodyUndergoingAcceleration, nameOfBodyExertingAcceleration, centralBody, nameOfCentralBody) ==
    LET single == nameOfCentralBody = nameOfBodyExertingAcceleration
                      \/ isFrameInertial(nameOfCentralBody)
        useCentralBodyFixedFrame ==
            IF nameOfCentralBody = nameOfBodyExertingAcceleration THEN TRUE ELSE FALSE
    IN  CASE accelerationSettings.accelerationType_ = central_gravity ->
               IF single
               THEN createCentralGravityAcceleratioModelLegacy(
                        bodyUndergoingAcceleration, bodyExertingAcceleration,
                        nameOfBodyUndergoingAcceleration, nameOfBodyExertingAcceleration,
                        useCentralBodyFixedFrame)
               ELSE createThirdBodyCentralGravityAccelerationModelLegacy(
                        bodyUndergoingAcceleration, bodyExertingAcceleration, centralBody,
                        nameOfBodyUndergoingAcceleration, nameOfBodyExertingAcceleration,
                        nameOfCentralBody)
          [] accelerationSettings.accelerationType_ = spherical_harmonic_gravity ->
               IF single
               THEN createSphericalHarmonicsGravityAccelerationLegacy(
                        bodyUndergoingAcceleration, bodyExertingAcceleration,
                        nameOfBodyUndergoingAcceleration, nameOfBodyExertingAcceleration,
                        accelerationSettings, useCentralBodyFixedFrame)
               ELSE Throw(NoThirdBodySphericalHarmonic)
          [] OTHER -> Throw(NotRecognized)


(***************************************************************************)
(* Builders that may write to a body                                       *)
(***************************************************************************)
\* What a builder leaves behind besides its result: the body map, the
\* interpolators and the next free object identity.
Effect(result, bodies, interps, next) ==
    [ok |-> result.ok, model |-> result.model, error |-> result.error,
     bodyMap |-> bodies, interpolators |-> interps, nextObject |-> next]

\* A builder result that leaves everything as it was.
NoEffect(result, bodies, interps, next) == Effect(result, bodies, interps, next)

\* Variant: flight conditions are made anew at every aerodynamic build.
attachFlightConditions_Always(bodies, nameOfBodyUndergoingAcceleration, next) ==
    [bodies EXCEPT ![nameOfBodyUndergoingAcceleration].flightConditions = next]

\* Flight conditions are attached only to a body that has none.
attachFlightConditions(bodies, nameOfBodyUndergoingAcceleration, next) ==
    IF bodies[nameOfBodyUndergoingAcceleration].flightConditions = 0
    THEN [bodies EXCEPT ![nameOfBodyUndergoingAcceleration].flightConditions = next]
    ELSE bodies

\* Variant: the exerting body's shape model is not asked for.
createAerodynamicAcceleratioModel_NoShapeCheck(bodies, interps, next, nameOfBodyUndergoingAcceleration, nameOfBodyExertingAcceleration) ==
    IF ~bodies[nameOfBodyUndergoingAcceleration].aerodynamicCoefficientInterface
    THEN NoEffect(Throw(MissingCapability), bodies, interps, next)
    ELSE IF ~bodies[nameOfBodyExertingAcceleration].atmosphereModel
    THEN NoEffect(Throw(MissingCapability), bodies, interps, next)
    ELSE LET after == attachFlightConditions(bodies, nameOfBodyUndergoingAcceleration, next)
             created == IF after = bodies THEN 0 ELSE 1
         IN  Effect(Ok([type |-> aerodynamic,
                        undergoing |-> nameOfBodyUndergoingAcceleration,
                        exerting |-> nameOfBodyExertingAcceleration,
                        flightConditions |->
                            after[nameOfBodyUndergoingAcceleration].flightConditions]),
                    after, interps, next + created)

\* Variant: flight conditions are attached before the capability checks.
createAerodynamicAcceleratioModel_AttachFirst(bodies, interps, next, nameOfBodyUndergoingAcceleration, nameOfBodyExertingAcceleration) ==
    LET after == attachFlightConditions(bodies, nameOfBodyUndergoingAcceleration, next)
        created == IF after = bodies THEN 0 ELSE 1
    IN  IF \/ ~bodies[nameOfBodyUndergoingAcceleration].aerodynamicCoefficientInterface
           \/ ~bodies[nameOfBodyExertingAcceleration].atmosphereModel
           \/ ~bodies[nameOfBodyExertingAcceleration].shapeModel
        THEN Effect(Throw(MissingCapability), after, interps, next + created)
        ELSE Effect(Ok([type |-> aerodynamic,
                        undergoing |-> nameOfBodyUndergoingAcceleration,
                        exerting |-> nameOfBodyExertingAcceleration,
                        flightConditions |->
                            after[nameOfBodyUndergoingAcceleration].flightConditions]),
                    after, interps, next + created)

createAerodynamicAcceleratioModel(bodies, interps, next, nameOfBodyUndergoingAcceleration, nameOfBodyExertingAcceleration) ==
    IF ~bodies[nameOfBodyUndergoingAcceleration].aerodynamicCoefficientInterface
    THEN NoEffect(Throw(MissingCapability), bodies, interps, next)
    ELSE IF ~bodies[nameOfBodyExertingAcceleration].atmosphereModel
    THEN NoEffect(Throw(MissingCapability), bodies, interps, next)
    ELSE IF ~bodies[nameOfBodyExertingAcceleration].shapeModel
    THEN NoEffect(Throw(MissingCapability), bodies, interps, next)
    ELSE LET after == attachFlightConditions(bodies, nameOfBodyUndergoingAcceleration, next)
             created == IF after = bodies THEN 0 ELSE 1
         IN  Effect(Ok([type |-> aerodynamic,
                        undergoing |-> nameOfBodyUndergoingAcceleration,
                        exerting |-> nameOfBodyExertingAcceleration,
                        flightConditions |->
                            after[nameOfBodyUndergoingAcceleration].flightConditions]),
                    after, interps, next + created)

createCannonballRadiationPressureAcceleratioModel(bodies, interps, next, nameOfBodyUndergoingAcceleration, nameOfBodyExertingAcceleration) ==
    IF nameOfBodyExertingAcceleration
           \notin bodies[nameOfBodyUndergoingAcceleration].radiationPressureInterfaces
    THEN NoEffect(Throw(MissingCapability), bodies, interps, next)
    ELSE NoEffect(Ok([type |-> cannon_ball_radiation_pressure,
                      undergoing |-> nameOfBodyUndergoingAcceleration,
                      exerting |-> nameOfBodyExertingAcceleration,
                      radiationPressureInterface |-> nameOfBodyExertingAcceleration]),
                  bodies, interps, next)

(***************************************************************************)
(* Thrust                                                                  *)
(***************************************************************************)
unspecified_thurst_frame == "unspecified_thurst_frame"
inertial_thurst_frame == "inertial_thurst_frame"
lvlh_thrust_frame == "lvlh_thrust_frame"
rtn_thrust_frame == "rtn_thrust_frame"

thrust_direction_from_existing_body_orientation ==
    "thrust_direction_from_existing_body_orientation"
custom_thrust_direction == "custom_thrust_direction"

OutOfRange == "out_of_range"    \* std::map::at on a key the map does not hold

\* Thrust settings.  interpolatorInterface_ is 0 (NULL) or an interpolator;
\* directionUpdates and magnitudeUpdates stand for the environment updates
\* that the direction guidance and the magnitude wrapper made for these
\* settings report.
ThrustAccelerationSettings(interpolator, frame, centralBody, directionType, directionUpdates, magnitudeUpdates) ==
    [class |-> ThrustSettingsClass,
     accelerationType_ |-> thrust_acceleration,
     interpolatorInterface_ |-> interpolator,
     thrustFrame_ |-> frame,
     centralBody_ |-> centralBody,
     thrustDirectionType_ |-> directionType,
     directionUpdates |-> directionUpdates,
     magnitudeUpdates |-> magnitudeUpdates]

\* propagators::addEnvironmentUpdates: the entries to add are merged into the
\* list, an entry already there is not added again.
addEnvironmentUpdates(environmentUpdateList, updatesToAdd) ==
    environmentUpdateList \cup updatesToAdd

\* Variant: the checks are made but the interpolator is left as it is.
bindRotationFunction_NoReset(thrustAccelerationSettings, bodies, interps, nameOfBodyUndergoingThrust) ==
    LET frame == thrustAccelerationSettings.thrustFrame_
        central == thrustAccelerationSettings.centralBody_
        interpolator == thrustAccelerationSettings.interpolatorInterface_
    IN  IF interpolator = 0
        THEN [error |-> "none", interpolators |-> interps]
        ELSE IF frame = unspecified_thurst_frame
        THEN [error |-> SettingsInconsistent, interpolators |-> interps]
        ELSE IF frame = inertial_thurst_frame
        THEN [error |-> "none", interpolators |-> interps]
        ELSE IF frame \in {lvlh_thrust_frame, rtn_thrust_frame}
        THEN IF nameOfBodyUndergoingThrust \notin DOMAIN bodies
             THEN [error |-> OutOfRange, interpolators |-> interps]
             ELSE IF ~isFrameInertial(central) /\ central \notin DOMAIN bodies
             THEN [error |-> LookupError, interpolators |-> interps]
             ELSE [error |-> "none", interpolators |-> interps]
        ELSE [error |-> NotRecognized, interpolators |-> interps]

\* Variant: a rotation function is bound for the inertial thrust frame too.
bindRotationFunction_InertialFrameToo(thrustAccelerationSettings, bodies, interps, nameOfBodyUndergoingThrust) ==
    LET frame == thrustAccelerationSettings.thrustFrame_
        central == thrustAccelerationSettings.centralBody_
        interpolator == thrustAccelerationSettings.interpolatorInterface_
    IN  IF interpolator = 0
        THEN [error |-> "none", interpolators |-> interps]
        ELSE IF frame = unspecified_thurst_frame
        THEN [error |-> SettingsInconsistent, interpolators |-> interps]
        ELSE IF frame \in {inertial_thurst_frame, lvlh_thrust_frame, rtn_thrust_frame}
        THEN IF nameOfBodyUndergoingThrust \notin DOMAIN bodies
             THEN [error |-> OutOfRange, interpolators |-> interps]
             ELSE IF ~isFrameInertial(central) /\ central \notin DOMAIN bodies
             THEN [error |-> LookupError, interpolators |-> interps]
             ELSE [error |-> "none",
                   interpolators |->
                       [interps EXCEPT ![interpolator] =
                           [frame |-> frame,
                            vehicle |-> nameOfBodyUndergoingThrust,
                            centralBody |->
                                IF isFrameInertial(central) THEN "zero" ELSE central]]]
        ELSE [error |-> NotRecognized, interpolators |-> interps]

\* Lines 912-975: the rotation function bound into a user-supplied
\* interpolator.  The result is the exception thrown, or the interpolators left.
bindRotationFunction(thrustAccelerationSettings, bodies, interps, nameOfBodyUndergoingThrust) ==
    LET frame == thrustAccelerationSettings.thrustFrame_
        central == thrustAccelerationSettings.centralBody_
        interpolator == thrustAccelerationSettings.interpolatorInterface_
    IN  IF interpolator = 0
        THEN [error |-> "none", interpolators |-> interps]
        ELSE IF frame = unspecified_thurst_frame
        THEN [error |-> SettingsInconsistent, interpolators |-> interps]
        ELSE IF frame = inertial_thurst_frame
        THEN [error |-> "none", interpolators |-> interps]
        ELSE IF frame \in {lvlh_thrust_frame, rtn_thrust_frame}
        THEN IF nameOfBodyUndergoingThrust \notin DOMAIN bodies
             THEN [error |-> OutOfRange, interpolators |-> interps]
             ELSE IF ~isFrameInertial(central) /\ central \notin DOMAIN bodies
             THEN [error |-> LookupError, interpolators |-> interps]
             ELSE [error |-> "none",
                   interpolators |->
                       [interps EXCEPT ![interpolator] =
                           [frame |-> frame,
                            vehicle |-> nameOfBodyUndergoingThrust,
                            centralBody |->
                                IF isFrameInertial(central) THEN "zero" ELSE central]]]
        ELSE [error |-> NotRecognized, interpolators |-> interps]

\* Variant: only the updates of the magnitude wrapper are put into the plan.
createThrustAcceleratioModel_MagnitudeUpdatesOnly(accelerationSettings, bodies, interps, next, nameOfBodyUndergoingThrust) ==
    IF accelerationSettings.class # ThrustSettingsClass
    THEN NoEffect(Throw(SettingsInconsistent), bodies, interps, next)
    ELSE
    LET bound == bindRotationFunction(accelerationSettings, bodies, interps,
                                      nameOfBodyUndergoingThrust)
        thrustDirectionGuidance == next
        totalUpdateSettings ==
            addEnvironmentUpdates({}, accelerationSettings.magnitudeUpdates)
        after ==
            IF ~(accelerationSettings.thrustDirectionType_
                     = thrust_direction_from_existing_body_orientation)
            THEN [bodies EXCEPT ![nameOfBodyUndergoingThrust].dependentOrientationCalculator
                                    = thrustDirectionGuidance]
            ELSE bodies
    IN  IF bound.error # "none"
        THEN NoEffect(Throw(bound.error), bodies, interps, next)
        ELSE IF nameOfBodyUndergoingThrust \notin DOMAIN bodies
        THEN Effect(Throw(OutOfRange), bodies, bound.interpolators, next + 1)
        ELSE Effect(Ok([type |-> thrust_acceleration,
                        undergoing |-> nameOfBodyUndergoingThrust,
                        thrustDirectionGuidance |-> thrustDirectionGuidance,
                        interpolator |-> accelerationSettings.interpolatorInterface_,
                        requiredModelUpdates |-> totalUpdateSettings]),
                    after, bound.interpolators, next + 1)

createThrustAcceleratioModel(accelerationSettings, bodies, interps, next, nameOfBodyUndergoingThrust) ==
    IF accelerationSettings.class # ThrustSettingsClass
    THEN NoEffect(Throw(SettingsInconsistent), bodies, interps, next)
    ELSE
    LET bound == bindRotationFunction(accelerationSettings, bodies, interps,
                                      nameOfBodyUndergoingThrust)
        thrustDirectionGuidance == next
        totalUpdateSettings ==
            addEnvironmentUpdates(
                addEnvironmentUpdates({}, accelerationSettings.directionUpdates),
                accelerationSettings.magnitudeUpdates)
        after ==
            IF ~(accelerationSettings.thrustDirectionType_
                     = thrust_direction_from_existing_body_orientation)
            THEN [bodies EXCEPT ![nameOfBodyUndergoingThrust].dependentOrientationCalculator
                                    = thrustDirectionGuidance]
            ELSE bodies
    IN  IF bound.error # "none"
        THEN NoEffect(Throw(bound.error), bodies, interps, next)
        ELSE IF nameOfBodyUndergoingThrust \notin DOMAIN bodies
        THEN Effect(Throw(OutOfRange), bodies, bound.interpolators, next + 1)
        ELSE Effect(Ok([type |-> thrust_acceleration,
                        undergoing |-> nameOfBodyUndergoingThrust,
                        thrustDirectionGuidance |-> thrustDirectionGuidance,
                        interpolator |-> accelerationSettings.interpolatorInterface_,
                        requiredModelUpdates |-> totalUpdateSettings]),
                    after, bound.interpolators, next + 1)

(***************************************************************************)
(* createAccelerationModel                                                 *)
(***************************************************************************)
\* A pointer into the body map: the body of that name, NULL when there is none.
BodyPointer(bodies, name) ==
    IF name \in DOMAIN bodies THEN bodies[name] ELSE NullBody

\* Newer code: dispatch on the type tag.
createAccelerationModel(bodies, interps, next, accelerationSettings, nameOfBodyUndergoingAcceleration, nameOfBodyExertingAcceleration, nameOfCentralBody) ==
    LET type == accelerationSettings.accelerationType_
    IN  CASE type \in GravityTypes ->
               NoEffect(createGravitationalAccelerationModel(
                            bodies[nameOfBodyUndergoingAcceleration],
                            bodies[nameOfBodyExertingAcceleration],
                            accelerationSettings,
                            nameOfBodyUndergoingAcceleration,
                            nameOfBodyExertingAcceleration,
                            BodyPointer(bodies, nameOfCentralBody), nameOfCentralBody),
                        bodies, interps, next)
          [] type = aerodynamic ->
               createAerodynamicAcceleratioModel(
                   bodies, interps, next,
                   nameOfBodyUndergoingAcceleration, nameOfBodyExertingAcceleration)
          [] type = cannon_ball_radiation_pressure ->
               createCannonballRadiationPressureAcceleratioModel(
                   bodies, interps, next,
                   nameOfBodyUndergoingAcceleration, nameOfBodyExertingAcceleration)
          [] type = thrust_acceleration ->
               createThrustAcceleratioModel(
                   accelerationSettings, bodies, interps, next,
                   nameOfBodyUndergoingAcceleration)
          [] OTHER -> NoEffect(Throw(NotRecognized), bodies, interps, next)

\* Legacy file: the cannon_ball_radiation_pressure case has no break and runs
\* on into the default case, which throws.
createAccelerationModelLegacy(bodies, interps, next, accelerationSettings, nameOfBodyUndergoingAcceleration, nameOfBodyExertingAcceleration, nameOfCentralBody) ==
    LET type == accelerationSettings.accelerationType_
    IN  CASE type \in {central_gravity, spherical_harmonic_gravity} ->
               NoEffect(createGravityCaseLegacy(
                            bodies[nameOfBodyUndergoingAcceleration],
                            bodies[nameOfBodyExertingAcceleration],
                            accelerationSettings,
                            nameOfBodyUndergoingAcceleration,
                            nameOfBodyExertingAcceleration,
                            BodyPointer(bodies, nameOfCentralBody), nameOfCentralBody),
                        bodies, interps, next)
          [] type = aerodynamic ->
               createAerodynamicAcceleratioModel(
                   bodies, interps, next,
                   nameOfBodyUndergoingAcceleration, nameOfBodyExertingAcceleration)
          [] type = cannon_ball_radiation_pressure ->
               LET built == createCannonballRadiationPressureAcceleratioModel(
                                bodies, interps, next,
                                nameOfBodyUndergoingAcceleration,
                                nameOfBodyExertingAcceleration)
               IN  IF built.ok
                   THEN NoEffect(Throw(NotRecognized), bodies, interps, next)
                   ELSE built
          [] OTHER -> NoEffect(Throw(NotRecognized), bodies, interps, next)


(***************************************************************************)
(* Invocation records                                                      *)
(***************************************************************************)
NoCall == [function |-> "none"]

\* The result of a builder without what it leaves behind.
ResultOf(effect) == [ok |-> effect.ok, model |-> effect.model, error |-> effect.error]

NoInterpolators == [i \in {} |-> 0]

(***************************************************************************)
(* SpecGravity: one call of createAccelerationModel, of either generation, *)
(* with gravity settings, over every gravity equipment of the three bodies *)
(***************************************************************************)
GravityEnvironments ==
    {[n \in BodyNames |-> WithGravity(BareBody(n), kinds[n])] :
        kinds \in [BodyNames -> GravityKinds]}

\* Settings of each gravity family of its proper class, and settings whose tag
\* names a spherical harmonic family while the object is of the base class.
GravitySettingsInputs ==
    {AccelerationSettings(type) : type \in GravityTypes}
        \cup {SphericalHarmonicAccelerationSettings(4, 3),
              MutualSphericalHarmonicAccelerationSettings(2, 1, 4, 3, 6, 5)}

CentralBodyNames == BodyNames \cup InertialNames

InitGravity ==
    /\ bodyMap \in GravityEnvironments
    /\ interpolators = NoInterpolators
    /\ nextObject = 1
    /\ call = NoCall
    /\ numberOfCalls = 0

\* One invocation of createAccelerationModel on the bodies as they are now:
\* what it returns is recorded, what it attaches stays.
InvokeCreateAccelerationModel(version, built, settings, nameU, nameE, nameC) ==
    /\ call' = [function |-> "createAccelerationModel", version |-> version,
                settings |-> settings, undergoing |-> nameU,
                exerting |-> nameE, centralBody |-> nameC,
                result |-> ResultOf(built)]
    /\ bodyMap' = built.bodyMap
    /\ interpolators' = built.interpolators
    /\ nextObject' = built.nextObject
    /\ numberOfCalls' = numberOfCalls + 1

CallCreateAccelerationModel(settings, nameU, nameE, nameC) ==
    /\ numberOfCalls = 0
    /\ InvokeCreateAccelerationModel(
           "new",
           createAccelerationModel(bodyMap, interpolators, nextObject,
                                   settings, nameU, nameE, nameC),
           settings, nameU, nameE, nameC)

CallCreateAccelerationModelLegacy(settings, nameU, nameE, nameC) ==
    /\ numberOfCalls = 0
    /\ InvokeCreateAccelerationModel(
           "legacy",
           createAccelerationModelLegacy(bodyMap, interpolators, nextObject,
                                         settings, nameU, nameE, nameC),
           settings, nameU, nameE, nameC)

NextGravity ==
    \E settings \in GravitySettingsInputs, nameU \in BodyNames, nameE \in BodyNames,
       nameC \in CentralBodyNames :
        \/ CallCreateAccelerationModel(settings, nameU, nameE, nameC)
        \/ CallCreateAccelerationModelLegacy(settings, nameU, nameE, nameC)

SpecGravity == InitGravity /\ [][NextGravity]_vars


(***************************************************************************)
(* Properties of the gravity builds (SpecGravity)                          *)
(***************************************************************************)
IsDispatch == call.function = "createAccelerationModel"

IsGravityDispatch == IsDispatch /\ call.settings.accelerationType_ \in GravityTypes

\* The settings object is of the class its type tag promises.
ProperClass(settings) ==
    CASE settings.accelerationType_ = spherical_harmonic_gravity ->
           settings.class = SphericalHarmonicSettingsClass
      [] settings.accelerationType_ = mutual_spherical_harmonic_gravity ->
           settings.class = MutualSphericalHarmonicSettingsClass
      [] settings.accelerationType_ = thrust_acceleration ->
           settings.class = ThrustSettingsClass
      [] OTHER -> TRUE

HasSphericalHarmonics(name) ==
    name \in DOMAIN bodyMap /\ bodyMap[name].gravityFieldModel = SphericalHarmonicsField

\* Every body owns what any gravity family asks of any of its roles.
FullyEquipped ==
    \A n \in BodyNames :
        /\ HasSphericalHarmonics(n)
        /\ bodyMap[n].rotationalEphemeris = bodyMap[n].fixedReferenceFrame

\* The rule as the specification words it.
ThirdBodyRule ==
    /\ call.centralBody # call.exerting
    /\ call.centralBody \notin {"SSB", "", "Inertial"}

IsThirdBodyModel(model) == model.type = "third_body"

\* C1 as stated: for every gravity settings entry and every combination of
\* undergoing, exerting and central body name, the assembler (of either
\* generation) builds a third-body model exactly when the central body name is
\* neither the exerting body's name nor an inertial frame name, and the direct
\* model in every other case.  Bodies and settings are such that no build can
\* fail for want of a capability.
C1_ThirdBodyExactlyWhenRule ==
    (IsGravityDispatch /\ ProperClass(call.settings) /\ FullyEquipped)
        => /\ call.result.ok
           /\ IsThirdBodyModel(call.result.model) <=> ThirdBodyRule

\* C1 amended: the newer assembler follows the rule for the three gravity
\* families; the legacy assembler follows it for central_gravity only, builds
\* the direct spherical_harmonic_gravity model when the rule selects it and
\* fails with "cannot yet make third body spherical harmonic acceleration"
\* otherwise, and does not recognise mutual_spherical_harmonic_gravity.
C1_ThirdBodyRuleByGeneration ==
    IsGravityDispatch =>
        LET type == call.settings.accelerationType_
            equipped == ProperClass(call.settings) /\ FullyEquipped
        IN  IF call.version = "new" \/ type = central_gravity
            THEN /\ equipped => call.result.ok
                 /\ call.result.ok =>
                       /\ IsThirdBodyModel(call.result.model) <=> ThirdBodyRule
                       /\ IsThirdBodyModel(call.result.model)
                              => call.result.model.family = type
                       /\ ~IsThirdBodyModel(call.result.model)
                              => call.result.model.type = type
            ELSE IF type = spherical_harmonic_gravity
            THEN /\ ThirdBodyRule =>
                       (~call.result.ok /\ call.result.error = NoThirdBodySphericalHarmonic)
                 /\ (~ThirdBodyRule /\ equipped) =>
                       (call.result.ok /\ call.result.model.type = type)
            ELSE ~call.result.ok /\ call.result.error = NotRecognized

C1_Witness ==
    /\ IsGravityDispatch
    /\ call.version = "new"
    /\ call.settings.accelerationType_ = spherical_harmonic_gravity
    /\ call.centralBody \in BodyNames
    /\ call.result.ok
    /\ IsThirdBodyModel(call.result.model)

\* C6: a third-body model, of any gravity family F, for undergoing body U,
\* exerting body E and central body C holds exactly the two direct models
\* F(U, E) and F(C, E), in that order (the composite subtracts the second from
\* the first); both legs are built without the central-body-fixed-frame flag
\* and carry the gravitational parameter of E alone.
C6_ThirdBodyLegs ==
    (IsDispatch /\ call.result.ok /\ IsThirdBodyModel(call.result.model)) =>
        LET model == call.result.model
            legU == model.accelerationModelForBodyUndergoingAcceleration
            legC == model.accelerationModelForCentralBody
        IN  /\ model.family = call.settings.accelerationType_
            /\ model.centralBodyName = call.centralBody
            /\ legU.type = model.family /\ legC.type = model.family
            /\ legU.undergoing = call.undergoing /\ legU.exerting = call.exerting
            /\ legC.undergoing = call.centralBody /\ legC.exerting = call.exerting
            /\ legU.isMutualAttractionUsed = FALSE
            /\ legC.isMutualAttractionUsed = FALSE
            /\ legU.gravitationalParameter = MuOf[call.exerting]
            /\ legC.gravitationalParameter = MuOf[call.exerting]

C6_Witness ==
    /\ IsDispatch
    /\ call.result.ok
    /\ IsThirdBodyModel(call.result.model)
    /\ call.result.model.family = mutual_spherical_harmonic_gravity
    /\ call.undergoing # call.centralBody
    /\ call.undergoing # call.exerting

\* C7: the gravitational parameter bound into a direct gravity model is the
\* exerting body's alone when the central-body-fixed-frame flag is false or the
\* undergoing body owns no gravity field, and the sum of both bodies'
\* parameters when the flag is true and the undergoing body owns one; the flag
\* is true exactly when the central body name is the exerting body's name.
C7_GravitationalParameter ==
    (IsDispatch /\ call.result.ok /\ call.result.model.type \in GravityTypes) =>
        LET model == call.result.model
            flag == (call.centralBody = call.exerting)
            owns == bodyMap[call.undergoing].gravityFieldModel # NoField
        IN  /\ model.isMutualAttractionUsed = flag
            /\ model.gravitationalParameter =
                   IF flag /\ owns
                   THEN MuOf[call.exerting] + MuOf[call.undergoing]
                   ELSE MuOf[call.exerting]

C7_Witness ==
    /\ IsDispatch
    /\ call.result.ok
    /\ call.result.model.type = spherical_harmonic_gravity
    /\ call.centralBody = call.exerting
    /\ call.undergoing # call.exerting
    /\ bodyMap[call.undergoing].gravityFieldModel = PointField
    /\ call.result.model.gravitationalParameter
           = MuOf[call.exerting] + MuOf[call.undergoing]

\* A spherical harmonic build whose exerting body owns a spherical harmonics
\* field and no rotational ephemeris.
RotationlessSphericalHarmonicBuild ==
    /\ IsDispatch
    /\ call.settings.accelerationType_ = spherical_harmonic_gravity
    /\ call.settings.class = SphericalHarmonicSettingsClass
    /\ HasSphericalHarmonics(call.exerting)
    /\ bodyMap[call.exerting].rotationalEphemeris = NoEphemeris

\* C9 as stated: when a spherical_harmonic_gravity model is built and the
\* exerting body owns a spherical harmonics field but no rotational ephemeris,
\* construction is not blocked: the build returns a model.  (Direct builds,
\* which both generations know how to make.)
C9_MissingRotationDoesNotBlock ==
    (RotationlessSphericalHarmonicBuild /\ ~ThirdBodyRule) => call.result.ok

\* C9 amended: the legacy builder does not look at the rotational ephemeris
\* and returns the model; the newer builder throws ("no rotation model found")
\* and returns no model.
C9_MissingRotationByGeneration ==
    RotationlessSphericalHarmonicBuild =>
        IF call.version = "legacy"
        THEN ~ThirdBodyRule =>
                 (call.result.ok /\ call.result.model.type = spherical_harmonic_gravity)
        ELSE /\ ~call.result.ok
             /\ call.result.error = NoRotationModel
             /\ call.result.model = NoModel

C9_Witness ==
    /\ RotationlessSphericalHarmonicBuild
    /\ call.version = "new"
    /\ ~ThirdBodyRule
    /\ call.result.error = NoRotationModel

\* C10: a spherical_harmonic_gravity build fails whenever the exerting body's
\* field is absent or not a spherical harmonics one; a
\* mutual_spherical_harmonic_gravity build fails whenever the exerting or the
\* undergoing body lacks a spherical harmonics field and, in the third-body
\* case, whenever the central body lacks one.  No model is returned then.
C10_SphericalHarmonicsFieldRequired ==
    IsDispatch =>
        LET type == call.settings.accelerationType_
            failed == ~call.result.ok /\ call.result.model = NoModel
        IN  /\ (type = spherical_harmonic_gravity
                    /\ ~HasSphericalHarmonics(call.exerting)) => failed
            /\ (type = mutual_spherical_harmonic_gravity
                    /\ (~HasSphericalHarmonics(call.exerting)
                            \/ ~HasSphericalHarmonics(call.undergoing))) => failed
            /\ (type = mutual_spherical_harmonic_gravity /\ ThirdBodyRule
                    /\ ~HasSphericalHarmonics(call.centralBody)) => failed

C10_Witness ==
    /\ IsDispatch
    /\ call.version = "new"
    /\ call.settings.class = MutualSphericalHarmonicSettingsClass
    /\ ThirdBodyRule
    /\ HasSphericalHarmonics(call.exerting)
    /\ HasSphericalHarmonics(call.undergoing)
    /\ ~HasSphericalHarmonics(call.centralBody)
    /\ ~call.result.ok
    /\ call.result.error = MissingCapability


\* A spherical harmonic build by the newer builder whose exerting body owns a
\* spherical harmonics field and a rotational ephemeris.
RotatingSphericalHarmonicBuild ==
    /\ IsDispatch
    /\ call.version = "new"
    /\ call.settings.accelerationType_ = spherical_harmonic_gravity
    /\ call.settings.class = SphericalHarmonicSettingsClass
    /\ HasSphericalHarmonics(call.exerting)
    /\ bodyMap[call.exerting].rotationalEphemeris # NoEphemeris

OwnFieldExpansion(model) ==
    <<model.maximumDegreeOfUndergoingBody, model.maximumOrderOfUndergoingBody>>

\* The degree and order a mutual spherical harmonic model applies to the field
\* of the exerting body.
ExertingFieldExpansion(model) ==
    <<model.maximumDegreeOfBodyExertingAcceleration,
      model.maximumOrderOfBodyExertingAcceleration>>

\* C12: in a mutual_spherical_harmonic_gravity build the degree and order
\* applied to the accelerated body's own field are the settings' undergoing-body
\* degree and order when that body is the real undergoing body (direct model,
\* first leg of a third-body model) and the settings' central-body degree and
\* order when it is the central body (second leg of a third-body model); the
\* exerting body's degree and order are the settings' in every leg.
C12_MutualDegreeAndOrder ==
    (IsDispatch /\ call.result.ok
         /\ call.settings.accelerationType_ = mutual_spherical_harmonic_gravity) =>
        LET settings == call.settings
            undergoingExpansion == <<settings.maximumDegreeOfBodyUndergoingAcceleration_,
                                     settings.maximumOrderOfBodyUndergoingAcceleration_>>
            centralExpansion == <<settings.maximumDegreeOfCentralBody_,
                                  settings.maximumOrderOfCentralBody_>>
            exertingExpansion == <<settings.maximumDegreeOfBodyExertingAcceleration_,
                                   settings.maximumOrderOfBodyExertingAcceleration_>>
            model == call.result.model
        IN  IF IsThirdBodyModel(model)
            THEN /\ OwnFieldExpansion(model.accelerationModelForBodyUndergoingAcceleration)
                        = undergoingExpansion
                 /\ OwnFieldExpansion(model.accelerationModelForCentralBody)
                        = centralExpansion
                 /\ ExertingFieldExpansion(model.accelerationModelForBodyUndergoingAcceleration)
                        = exertingExpansion
                 /\ ExertingFieldExpansion(model.accelerationModelForCentralBody)
                        = exertingExpansion
            ELSE /\ OwnFieldExpansion(model) = undergoingExpansion
                 /\ ExertingFieldExpansion(model) = exertingExpansion

C12_Witness ==
    /\ IsDispatch
    /\ call.result.ok
    /\ call.settings.accelerationType_ = mutual_spherical_harmonic_gravity
    /\ IsThirdBodyModel(call.result.model)
    /\ OwnFieldExpansion(call.result.model.accelerationModelForCentralBody)
           # OwnFieldExpansion(call.result.model.accelerationModelForBodyUndergoingAcceleration)
    /\ OwnFieldExpansion(call.result.model.accelerationModelForCentralBody)
           = <<call.settings.maximumDegreeOfCentralBody_,
               call.settings.maximumOrderOfCentralBody_>>

IsCentralGravityBuild ==
    IsDispatch /\ call.settings.accelerationType_ = central_gravity

\* C13: a central_gravity build fails with a missing-capability error exactly
\* when the exerting body has no gravity field; no gravity field is required on
\* the undergoing body or on the central body.
C13_CentralGravityNeedsExertingFieldOnly ==
    IsCentralGravityBuild =>
        IF bodyMap[call.exerting].gravityFieldModel = NoField
        THEN /\ ~call.result.ok
             /\ call.result.error = MissingCapability
             /\ call.result.model = NoModel
        ELSE /\ call.result.ok
             /\ call.result.model # NoModel

C13_Witness ==
    /\ IsCentralGravityBuild
    /\ call.version = "new"
    /\ bodyMap[call.exerting].gravityFieldModel # NoField
    /\ bodyMap[call.undergoing].gravityFieldModel = NoField
    /\ call.centralBody \in DOMAIN bodyMap
    /\ call.centralBody # call.exerting
    /\ bodyMap[call.centralBody].gravityFieldModel = NoField
    /\ call.result.ok

(***************************************************************************)
(* Per-pair ordering of the settings (newer code)                          *)
(***************************************************************************)
\* Positions, in increasing order, of the entries of one type.
IndicesOfType(accelerationList, type) ==
    SelectSeq([i \in 1..Len(accelerationList) |-> i],
              LAMBDA i : accelerationList[i].accelerationType_ = type)

\* Variant: the first position receives the second one's entry, which stays.
iter_swap_Overwrite(list, i, j) == [list EXCEPT ![i] = list[j]]

\* std::iter_swap on two positions of a vector.
iter_swap(list, i, j) == [list EXCEPT ![i] = list[j], ![j] = list[i]]

\* Variant: several aerodynamic entries next to thrust are always refused.
orderAccelerationList_RefuseSeveral(accelerationList) ==
    LET thrustAccelerationIndices == IndicesOfType(accelerationList, thrust_acceleration)
        aerodynamicAccelerationIndex == IndicesOfType(accelerationList, aerodynamic)
    IN  IF Len(thrustAccelerationIndices) > 0 /\ Len(aerodynamicAccelerationIndex) > 1
        THEN [ok |-> FALSE, list |-> <<>>, error |-> OrderingError]
        ELSE IF Len(thrustAccelerationIndices) > 0 /\ Len(aerodynamicAccelerationIndex) > 0
                /\ aerodynamicAccelerationIndex[1] > thrustAccelerationIndices[1]
        THEN [ok |-> TRUE, error |-> "none",
              list |-> iter_swap(accelerationList, aerodynamicAccelerationIndex[1],
                                 thrustAccelerationIndices[Len(thrustAccelerationIndices)])]
        ELSE [ok |-> TRUE, list |-> accelerationList, error |-> "none"]

\* Variant: the aerodynamic entry is exchanged with the first thrust entry.
orderAccelerationList_SwapFirstThrust(accelerationList) ==
    LET thrustAccelerationIndices == IndicesOfType(accelerationList, thrust_acceleration)
        aerodynamicAccelerationIndex == IndicesOfType(accelerationList, aerodynamic)
    IN  IF Len(thrustAccelerationIndices) > 0 /\ Len(aerodynamicAccelerationIndex) > 0
        THEN IF aerodynamicAccelerationIndex[Len(aerodynamicAccelerationIndex)]
                    > thrustAccelerationIndices[1]
             THEN IF Len(aerodynamicAccelerationIndex) = 1
                  THEN [ok |-> TRUE, error |-> "none",
                        list |-> iter_swap(accelerationList,
                                           aerodynamicAccelerationIndex[1],
                                           thrustAccelerationIndices[1])]
                  ELSE [ok |-> FALSE, list |-> <<>>, error |-> OrderingError]
             ELSE [ok |-> TRUE, list |-> accelerationList, error |-> "none"]
        ELSE [ok |-> TRUE, list |-> accelerationList, error |-> "none"]

\* The body of the inner loop of orderSelectedAccelerationMap: the ordered copy
\* of one pair's list, or the exception.
orderAccelerationList(accelerationList) ==
    LET thrustAccelerationIndices == IndicesOfType(accelerationList, thrust_acceleration)
        aerodynamicAccelerationIndex == IndicesOfType(accelerationList, aerodynamic)
    IN  IF Len(thrustAccelerationIndices) > 0 /\ Len(aerodynamicAccelerationIndex) > 0
        THEN IF aerodynamicAccelerationIndex[Len(aerodynamicAccelerationIndex)]
                    > thrustAccelerationIndices[1]
             THEN IF Len(aerodynamicAccelerationIndex) = 1
                  THEN [ok |-> TRUE, error |-> "none",
                        list |-> iter_swap(accelerationList,
                                           aerodynamicAccelerationIndex[1],
                                           thrustAccelerationIndices[
                                               Len(thrustAccelerationIndices)])]
                  ELSE [ok |-> FALSE, list |-> <<>>, error |-> OrderingError]
             ELSE [ok |-> TRUE, list |-> accelerationList, error |-> "none"]
        ELSE [ok |-> TRUE, list |-> accelerationList, error |-> "none"]

\* The (undergoing, exerting) pairs of a SelectedAccelerationMap.
PairsOf(selected) ==
    UNION {{<<u, e>> : e \in DOMAIN selected[u]} : u \in DOMAIN selected}

\* orderSelectedAccelerationMap: every pair's list is ordered in turn; the first
\* exception leaves the function.  The ordered map gets an undergoing key only
\* through the assignment of one of its pairs.
orderSelectedAccelerationMap(selectedAccelerationsPerBody) ==
    IF \E p \in PairsOf(selectedAccelerationsPerBody) :
           ~orderAccelerationList(selectedAccelerationsPerBody[p[1]][p[2]]).ok
    THEN [ok |-> FALSE, error |-> OrderingError, map |-> <<>>]
    ELSE [ok |-> TRUE, error |-> "none",
          map |-> [u \in {v \in DOMAIN selectedAccelerationsPerBody :
                              DOMAIN selectedAccelerationsPerBody[v] # {}} |->
                      [e \in DOMAIN selectedAccelerationsPerBody[u] |->
                          orderAccelerationList(
                              selectedAccelerationsPerBody[u][e]).list]]]

(***************************************************************************)
(* SpecOrder: one call of orderSelectedAccelerationMap                     *)
(***************************************************************************)
MaxOrderLen == 3

OrderTypes == {aerodynamic, thrust_acceleration, central_gravity}

\* A settings object together with its identity (the shared pointer's target).
SettingsObject(type, id) ==
    [class |-> BaseSettingsClass, accelerationType_ |-> type, object |-> id]

OrderLists ==
    UNION {{[i \in 1..n |-> SettingsObject(types[i], i)] : types \in [1..n -> OrderTypes]} :
               n \in 0..MaxOrderLen}

OrderExertingNames == {"Earth", "Moon"}

\* Maps with at most the undergoing body "Sat" and any of the exerting bodies.
OrderSelectedMaps ==
    {<<>>} \cup
    UNION {{[u \in {"Sat"} |-> inner] : inner \in [keys -> OrderLists]} :
               keys \in SUBSET OrderExertingNames}

InitOrder ==
    /\ bodyMap = [n \in BodyNames |-> BareBody(n)]
    /\ interpolators = NoInterpolators
    /\ nextObject = 1
    /\ call = NoCall
    /\ numberOfCalls = 0

CallOrderSelectedAccelerationMap(selected) ==
    /\ numberOfCalls = 0
    /\ call' = [function |-> "orderSelectedAccelerationMap",
                selectedAccelerationsPerBody |-> selected,
                result |-> orderSelectedAccelerationMap(selected)]
    /\ numberOfCalls' = numberOfCalls + 1
    /\ UNCHANGED <<bodyMap, interpolators, nextObject>>

NextOrder == \E selected \in OrderSelectedMaps : CallOrderSelectedAccelerationMap(selected)

SpecOrder == InitOrder /\ [][NextOrder]_vars

(***************************************************************************)
(* Properties of the ordering (SpecOrder)                                  *)
(***************************************************************************)
IsOrdering == call.function = "orderSelectedAccelerationMap"

HasType(list, type) == \E i \in 1..Len(list) : list[i].accelerationType_ = type

NumberOfType(list, type) == Len(IndicesOfType(list, type))

AerodynamicBeforeThrust(list) ==
    \A i, j \in 1..Len(list) :
        (list[i].accelerationType_ = aerodynamic
             /\ list[j].accelerationType_ = thrust_acceleration) => i < j

\* C2: for every pair's settings sequence that contains both aerodynamic and
\* thrust entries and for which orderSelectedAccelerationMap returns without
\* error, every aerodynamic entry of the returned sequence is at a lower index
\* than every thrust entry, for any number of thrust entries in any positions.
C2_AerodynamicBeforeThrust ==
    (IsOrdering /\ call.result.ok) =>
        \A p \in PairsOf(call.selectedAccelerationsPerBody) :
            LET given == call.selectedAccelerationsPerBody[p[1]][p[2]]
            IN  (HasType(given, aerodynamic) /\ HasType(given, thrust_acceleration))
                    => AerodynamicBeforeThrust(call.result.map[p[1]][p[2]])

RefusedCombination(given) ==
    /\ NumberOfType(given, thrust_acceleration) >= 1
    /\ NumberOfType(given, aerodynamic) > 1
    /\ \E i, j \in 1..Len(given) :
           /\ given[i].accelerationType_ = aerodynamic
           /\ given[j].accelerationType_ = thrust_acceleration
           /\ i > j

SingleAerodynamicAfterThrust(given) ==
    /\ NumberOfType(given, aerodynamic) = 1
    /\ \E a, t \in 1..Len(given) :
           /\ given[a].accelerationType_ = aerodynamic
           /\ given[t].accelerationType_ = thrust_acceleration
           /\ t < a

\* The position of the only aerodynamic entry, and of the last thrust entry.
AerodynamicPosition(given) ==
    CHOOSE a \in 1..Len(given) : given[a].accelerationType_ = aerodynamic

LastThrustPosition(given) ==
    CHOOSE t \in 1..Len(given) :
        /\ given[t].accelerationType_ = thrust_acceleration
        /\ \A k \in 1..Len(given) :
               given[k].accelerationType_ = thrust_acceleration => k <= t

\* C20: when a pair's list holds thrust entries and exactly one aerodynamic
\* entry, and the aerodynamic entry comes after the first thrust entry, the
\* returned list is the given one with the aerodynamic entry and the last
\* thrust entry exchanged and every other position unchanged; in particular
\* [thrust, aerodynamic] is returned as [aerodynamic, thrust].
C20_AerodynamicExchangedWithLastThrust ==
    (IsOrdering /\ call.result.ok) =>
        \A p \in PairsOf(call.selectedAccelerationsPerBody) :
            LET given == call.selectedAccelerationsPerBody[p[1]][p[2]]
                returned == call.result.map[p[1]][p[2]]
            IN  SingleAerodynamicAfterThrust(given) =>
                    /\ Len(returned) = Len(given)
                    /\ \A k \in 1..Len(given) :
                           returned[k] =
                               IF k = AerodynamicPosition(given)
                               THEN given[LastThrustPosition(given)]
                               ELSE IF k = LastThrustPosition(given)
                               THEN given[AerodynamicPosition(given)]
                               ELSE given[k]
                    /\ (Len(given) = 2 /\ given[1].accelerationType_ = thrust_acceleration)
                           => returned = <<given[2], given[1]>>

C20_Witness ==
    /\ IsOrdering
    /\ call.result.ok
    /\ "Sat" \in DOMAIN call.selectedAccelerationsPerBody
    /\ "Moon" \in DOMAIN call.selectedAccelerationsPerBody["Sat"]
    /\ LET given == call.selectedAccelerationsPerBody["Sat"]["Moon"]
           returned == call.result.map["Sat"]["Moon"]
       IN  /\ Len(given) = 3
           /\ given[1].accelerationType_ = thrust_acceleration
           /\ given[2].accelerationType_ = aerodynamic
           /\ given[3].accelerationType_ = thrust_acceleration
           /\ SingleAerodynamicAfterThrust(given)
           /\ returned = <<given[1], given[3], given[2]>>

\* The permutations of the positions of a list.
PositionPermutations(n) ==
    {f \in [1..n -> 1..n] : \A i, j \in 1..n : f[i] = f[j] => i = j}

IsPermutationOf(returned, given) ==
    /\ Len(returned) = Len(given)
    /\ \E f \in PositionPermutations(Len(given)) :
           \A i \in 1..Len(given) : returned[i] = given[f[i]]

\* The cases in which the code does not enter the exchange: no thrust entry,
\* no aerodynamic entry, or the last aerodynamic entry before the first thrust
\* entry.
NothingToOrder(given) ==
    \/ ~HasType(given, thrust_acceleration)
    \/ ~HasType(given, aerodynamic)
    \/ \A a, t \in 1..Len(given) :
           (given[a].accelerationType_ = aerodynamic
                /\ given[t].accelerationType_ = thrust_acceleration) => a < t

\* C28: whenever orderSelectedAccelerationMap returns, the returned map has the
\* same (undergoing, exerting) pairs as the given one and each pair's list is a
\* permutation of the given list of the same length; a list with no thrust
\* entry, with no aerodynamic entry, or whose last aerodynamic entry comes
\* before its first thrust entry is returned unchanged; and entries that are
\* neither aerodynamic nor thrust keep their position.
C28_OrderingPermutesEachPair ==
    (IsOrdering /\ call.result.ok) =>
        /\ PairsOf(call.result.map) = PairsOf(call.selectedAccelerationsPerBody)
        /\ \A p \in PairsOf(call.selectedAccelerationsPerBody) :
               LET given == call.selectedAccelerationsPerBody[p[1]][p[2]]
                   returned == call.result.map[p[1]][p[2]]
               IN  /\ IsPermutationOf(returned, given)
                   /\ NothingToOrder(given) => returned = given
                   /\ \A k \in 1..Len(given) :
                          given[k].accelerationType_
                                  \notin {aerodynamic, thrust_acceleration}
                              => returned[k] = given[k]

\* One call in which one pair's list is reordered around an entry of another
\* type and the other pair's list is returned as given.
C28_Witness ==
    /\ IsOrdering
    /\ call.result.ok
    /\ PairsOf(call.selectedAccelerationsPerBody) = {<<"Sat", "Earth">>, <<"Sat", "Moon">>}
    /\ LET given == call.selectedAccelerationsPerBody["Sat"]["Earth"]
           returned == call.result.map["Sat"]["Earth"]
       IN  /\ Len(given) = 3
           /\ given[1].accelerationType_ = thrust_acceleration
           /\ given[2].accelerationType_ = central_gravity
           /\ given[3].accelerationType_ = aerodynamic
           /\ returned = <<given[3], given[2], given[1]>>
    /\ LET given == call.selectedAccelerationsPerBody["Sat"]["Moon"]
       IN  /\ Len(given) = 2
           /\ given[1].accelerationType_ = aerodynamic
           /\ given[2].accelerationType_ = thrust_acceleration
           /\ call.result.map["Sat"]["Moon"] = given

(***************************************************************************)
(* SpecBuilds: a series of createAccelerationModel calls, of either        *)
(* generation, on the same bodies                                          *)
(***************************************************************************)
MaxBuilds == 3

\* Object 1 is a thrust direction interpolator supplied by the user, object 2
\* the flight conditions the environment setup may have given to Sat; the
\* objects made during the builds are numbered from 3.
UnboundInterpolator == [frame |-> "none", vehicle |-> "none", centralBody |-> "none"]

BuildEnvironments ==
    {[n \in BodyNames |->
        [BareBody(n) EXCEPT
            !.gravityFieldModel = PointField,
            !.aerodynamicCoefficientInterface = (n = "Moon" \/ (n = "Sat" /\ coefficients)),
            !.atmosphereModel = (n = "Earth"),
            !.shapeModel = (n = "Earth"),
            !.flightConditions = IF n = "Sat" /\ preset THEN 2 ELSE 0]] :
        coefficients \in BOOLEAN, preset \in BOOLEAN}

BuildSettingsInputs ==
    {AccelerationSettings(aerodynamic), AccelerationSettings(central_gravity),
     ThrustAccelerationSettings(0, unspecified_thurst_frame, "Earth",
                                custom_thrust_direction, {}, {}),
     ThrustAccelerationSettings(1, lvlh_thrust_frame, "Earth",
                                thrust_direction_from_existing_body_orientation,
                                {}, {})}

InitBuilds ==
    /\ bodyMap \in BuildEnvironments
    /\ interpolators = [i \in {1} |-> UnboundInterpolator]
    /\ nextObject = 3
    /\ call = NoCall
    /\ numberOfCalls = 0

BuildAccelerationModel(settings, nameU, nameE, nameC) ==
    /\ numberOfCalls < MaxBuilds
    /\ InvokeCreateAccelerationModel(
           "new",
           createAccelerationModel(bodyMap, interpolators, nextObject,
                                   settings, nameU, nameE, nameC),
           settings, nameU, nameE, nameC)

BuildAccelerationModelLegacy(settings, nameU, nameE, nameC) ==
    /\ numberOfCalls < MaxBuilds
    /\ InvokeCreateAccelerationModel(
           "legacy",
           createAccelerationModelLegacy(bodyMap, interpolators, nextObject,
                                         settings, nameU, nameE, nameC),
           settings, nameU, nameE, nameC)

NextBuilds ==
    \E settings \in BuildSettingsInputs, nameU \in {"Sat", "Moon"},
       nameE \in {"Earth", "Moon"}, nameC \in {"Earth", "SSB"} :
        \/ BuildAccelerationModel(settings, nameU, nameE, nameC)
        \/ BuildAccelerationModelLegacy(settings, nameU, nameE, nameC)

SpecBuilds == InitBuilds /\ [][NextBuilds]_vars

(***************************************************************************)
(* Properties of a series of builds (SpecBuilds)                           *)
(***************************************************************************)
\* C8: over any series of model builds a body's flight conditions object is
\* created at most once: it is created and attached only by a successful
\* aerodynamic build for a body that has none, no later build replaces it, the
\* aerodynamic model built for the body is bound to the object the body holds,
\* and a thrust build leaves the object where it is.
C8_FlightConditionsCreatedOnce ==
    [][\A n \in BodyNames :
          /\ bodyMap[n].flightConditions # 0
                 => bodyMap'[n].flightConditions = bodyMap[n].flightConditions
          /\ bodyMap'[n].flightConditions # bodyMap[n].flightConditions
                 => /\ call'.settings.accelerationType_ = aerodynamic
                    /\ call'.undergoing = n
                    /\ call'.result.ok
                    /\ bodyMap'[n].flightConditions = nextObject
                    /\ nextObject' = nextObject + 1
          /\ (call'.result.ok /\ call'.result.model.type = aerodynamic
                  /\ call'.undergoing = n)
                 => /\ bodyMap'[n].flightConditions # 0
                    /\ call'.result.model.flightConditions = bodyMap'[n].flightConditions
      ]_vars

C8_Witness ==
    /\ IsDispatch
    /\ numberOfCalls >= 2
    /\ call.result.ok
    /\ call.result.model.type = aerodynamic
    /\ call.result.model.flightConditions = bodyMap[call.undergoing].flightConditions
    /\ call.result.model.flightConditions > 2
    /\ call.result.model.flightConditions < nextObject - 1
    /\ \E n \in BodyNames : bodyMap[n].dependentOrientationCalculator # 0


\* A body with the two attachments a build may make blanked out.
WithoutAttachments(body) ==
    [body EXCEPT !.flightConditions = 0, !.dependentOrientationCalculator = 0]

\* Only the attachments of the body undergoing the last build changed.
OnlyAttachmentsOfUndergoingBodyChange ==
    \A n \in BodyNames :
        IF n = call'.undergoing
        THEN WithoutAttachments(bodyMap'[n]) = WithoutAttachments(bodyMap[n])
        ELSE bodyMap'[n] = bodyMap[n]

\* C18 as stated: a build changes nothing but the flight conditions and the
\* orientation calculator of the undergoing body; the settings passed in and
\* every object they refer to (the thrust direction interpolator), the body map
\* and all other capabilities of the bodies are left as they were.
C18_OnlyAttachmentsChange ==
    [][/\ OnlyAttachmentsOfUndergoingBodyChange
       /\ DOMAIN bodyMap' = DOMAIN bodyMap
       /\ interpolators' = interpolators
      ]_vars

\* The rotation function a thrust build binds into the interpolator of its
\* settings.
RotationFunctionOf(settings, nameOfBodyUndergoingThrust) ==
    [frame |-> settings.thrustFrame_,
     vehicle |-> nameOfBodyUndergoingThrust,
     centralBody |-> IF isFrameInertial(settings.centralBody_)
                     THEN "zero" ELSE settings.centralBody_]

\* C18 amended: a build leaves the body map and every capability of every body
\* as they were, except the flight conditions and the orientation calculator
\* of the undergoing body; it does change one object the settings refer to: a
\* successful thrust build whose settings carry an interpolator and the lvlh
\* or rtn thrust frame resets that interpolator's rotation function.  No
\* other interpolator changes, and no other build changes an interpolator.
C18_AttachmentsAndRotationFunctionChange ==
    [][/\ OnlyAttachmentsOfUndergoingBodyChange
       /\ DOMAIN bodyMap' = DOMAIN bodyMap
       /\ DOMAIN interpolators' = DOMAIN interpolators
       /\ \A i \in DOMAIN interpolators :
              IF /\ call'.result.ok
                 /\ call'.settings.accelerationType_ = thrust_acceleration
                 /\ call'.settings.interpolatorInterface_ = i
                 /\ call'.settings.thrustFrame_ \in {lvlh_thrust_frame, rtn_thrust_frame}
              THEN interpolators'[i] = RotationFunctionOf(call'.settings, call'.undergoing)
              ELSE interpolators'[i] = interpolators[i]
      ]_vars

C18_Witness ==
    /\ IsDispatch
    /\ call.result.ok
    /\ call.settings.accelerationType_ = thrust_acceleration
    /\ call.settings.interpolatorInterface_ # 0
    /\ interpolators[call.settings.interpolatorInterface_]
           = RotationFunctionOf(call.settings, call.undergoing)
    /\ interpolators[call.settings.interpolatorInterface_] # UnboundInterpolator
    /\ bodyMap[call.undergoing].dependentOrientationCalculator # 0
    /\ bodyMap[call.undergoing].flightConditions # 0

\* C19: attaching an orientation calculator is idempotent: a thrust build for
\* a body that already has an orientation calculator, attached by an earlier
\* thrust build, leaves the body with that same object.
C19_OrientationCalculatorKept ==
    [][\A n \in BodyNames :
          (/\ bodyMap[n].dependentOrientationCalculator # 0
           /\ call'.settings.accelerationType_ = thrust_acceleration
           /\ call'.undergoing = n
           /\ call'.result.ok)
              => bodyMap'[n].dependentOrientationCalculator
                     = bodyMap[n].dependentOrientationCalculator
      ]_vars



(***************************************************************************)
(* createAccelerationModelsMap (legacy file)                               *)
(***************************************************************************)
\* What a run of createAccelerationModelsMap has done so far: the bodies as the
\* builds left them, the createAccelerationModel calls made (attempts), the
\* local maps, and the exception in flight ("none" while the run goes on).
AssemblyRun(bodies, interps, next) ==
    [bodyMap |-> bodies, interpolators |-> interps, nextObject |-> next,
     attempts |-> <<>>,
     mapOfAccelerationsForBody |-> <<>>,
     accelerationModelMap |-> <<>>,
     error |-> "none"]

\* map[ key ].push_back( model ): the key is made by the first push_back.
\* Variant: indexing the map with a key it does not hold creates no entry.
push_back_NoInsert(map, key, model) ==
    IF key \in DOMAIN map
    THEN [map EXCEPT ![key] = Append(@, model)]
    ELSE map

push_back(map, key, model) ==
    IF key \in DOMAIN map
    THEN [map EXCEPT ![key] = Append(@, model)]
    ELSE map @@ (key :> <<model>>)

\* Variant: an entry whose build throws is passed over.
afterBuild_IgnoreFailure(run, built, accelerationSettings, bodyUndergoingAcceleration, bodyExertingAcceleration) ==
    IF built.ok
    THEN [run EXCEPT
             !.bodyMap = built.bodyMap,
             !.interpolators = built.interpolators,
             !.nextObject = built.nextObject,
             !.attempts = Append(@, [undergoing |-> bodyUndergoingAcceleration,
                                     exerting |-> bodyExertingAcceleration,
                                     settings |-> accelerationSettings,
                                     result |-> ResultOf(built)]),
             !.mapOfAccelerationsForBody =
                 push_back(@, bodyExertingAcceleration, built.model)]
    ELSE [run EXCEPT
             !.attempts = Append(@, [undergoing |-> bodyUndergoingAcceleration,
                                     exerting |-> bodyExertingAcceleration,
                                     settings |-> accelerationSettings,
                                     result |-> ResultOf(built)])]

\* Lines 541-547: the model returned is appended to the pair's list; an
\* exception thrown by the build leaves the function.
afterBuild(run, built, accelerationSettings, bodyUndergoingAcceleration, bodyExertingAcceleration) ==
    LET made == [run EXCEPT
                    !.bodyMap = built.bodyMap,
                    !.interpolators = built.interpolators,
                    !.nextObject = built.nextObject,
                    !.attempts = Append(@, [undergoing |-> bodyUndergoingAcceleration,
                                            exerting |-> bodyExertingAcceleration,
                                            settings |-> accelerationSettings,
                                            result |-> ResultOf(built)])]
    IN  IF built.ok
        THEN [made EXCEPT !.mapOfAccelerationsForBody =
                              push_back(@, bodyExertingAcceleration, built.model)]
        ELSE [made EXCEPT !.error = built.error]

\* Lines 538-549: the loop over one pair's settings.  bodyMap.at throws
\* std::out_of_range for a name the map does not hold.
RECURSIVE accelerationListLoop(_, _, _, _, _, _)
accelerationListLoop(run, accelerationList, i, bodyUndergoingAcceleration, bodyExertingAcceleration, currentCentralBodyName) ==
    IF run.error # "none" \/ i > Len(accelerationList)
    THEN run
    ELSE IF bodyUndergoingAcceleration \notin DOMAIN run.bodyMap
            \/ bodyExertingAcceleration \notin DOMAIN run.bodyMap
    THEN [run EXCEPT !.error = OutOfRange]
    ELSE accelerationListLoop(
             afterBuild(run,
                        createAccelerationModelLegacy(
                            run.bodyMap, run.interpolators, run.nextObject,
                            accelerationList[i], bodyUndergoingAcceleration,
                            bodyExertingAcceleration, currentCentralBodyName),
                        accelerationList[i], bodyUndergoingAcceleration,
                        bodyExertingAcceleration),
             accelerationList, i + 1, bodyUndergoingAcceleration,
             bodyExertingAcceleration, currentCentralBodyName)

\* Variant: the exerting body is not looked up before its models are built.
checkBodyExertingAcceleration_Unchecked(run, bodyExertingAcceleration) == run

\* Lines 524-532: the exerting body must be in the body map.
checkBodyExertingAcceleration(run, bodyExertingAcceleration) ==
    IF bodyExertingAcceleration \notin DOMAIN run.bodyMap
    THEN [run EXCEPT !.error = LookupError]
    ELSE run

\* Lines 516-550: the loop over the exerting bodies of one undergoing body, in
\* the order of the map's keys.
RECURSIVE body2IteratorLoop(_, _, _, _, _, _)
body2IteratorLoop(run, accelerationsForBody, keys, k, bodyUndergoingAcceleration, currentCentralBodyName) ==
    IF run.error # "none" \/ k > Len(keys)
    THEN run
    ELSE body2IteratorLoop(
             accelerationListLoop(
                 checkBodyExertingAcceleration(run, keys[k]),
                 accelerationsForBody[keys[k]], 1,
                 bodyUndergoingAcceleration, keys[k], currentCentralBodyName),
             accelerationsForBody, keys, k + 1,
             bodyUndergoingAcceleration, currentCentralBodyName)

\* Variant: the central body is looked up whatever its name.
resolveBodies_AlwaysLookUp(run, bodyUndergoingAcceleration, centralBodies) ==
    IF bodyUndergoingAcceleration \notin DOMAIN centralBodies
    THEN [run EXCEPT !.error = OutOfRange]
    ELSE IF centralBodies[bodyUndergoingAcceleration] \notin DOMAIN run.bodyMap
    THEN [run EXCEPT !.error = LookupError]
    ELSE IF bodyUndergoingAcceleration \notin DOMAIN run.bodyMap
    THEN [run EXCEPT !.error = LookupError]
    ELSE [run EXCEPT !.mapOfAccelerationsForBody = <<>>]

\* Lines 476-506: the central body of the undergoing body is found (at throws
\* for a body without an entry in centralBodies) and, when its name is not an
\* inertial frame, looked up; then the undergoing body is looked up.
resolveBodies(run, bodyUndergoingAcceleration, centralBodies) ==
    IF bodyUndergoingAcceleration \notin DOMAIN centralBodies
    THEN [run EXCEPT !.error = OutOfRange]
    ELSE IF ~isFrameInertial(centralBodies[bodyUndergoingAcceleration])
            /\ centralBodies[bodyUndergoingAcceleration] \notin DOMAIN run.bodyMap
    THEN [run EXCEPT !.error = LookupError]
    ELSE IF bodyUndergoingAcceleration \notin DOMAIN run.bodyMap
    THEN [run EXCEPT !.error = LookupError]
    ELSE [run EXCEPT !.mapOfAccelerationsForBody = <<>>]

\* Lines 472-554: the loop over the undergoing bodies, in the order of the
\* map's keys.
RECURSIVE bodyIteratorLoop(_, _, _, _, _)
bodyIteratorLoop(run, selectedAccelerationPerBody, centralBodies, keys, j) ==
    IF run.error # "none" \/ j > Len(keys)
    THEN run
    ELSE LET resolved == resolveBodies(run, keys[j], centralBodies)
             done == IF resolved.error # "none"
                     THEN resolved
                     ELSE body2IteratorLoop(
                              resolved, selectedAccelerationPerBody[keys[j]],
                              SortedKeys(DOMAIN selectedAccelerationPerBody[keys[j]]), 1,
                              keys[j], centralBodies[keys[j]])
         IN  bodyIteratorLoop(
                 IF done.error # "none"
                 THEN done
                 ELSE [done EXCEPT !.accelerationModelMap =
                                       (keys[j] :> done.mapOfAccelerationsForBody) @@ @],
                 selectedAccelerationPerBody, centralBodies, keys, j + 1)

createAccelerationModelsMap(bodies, interps, next, selectedAccelerationPerBody, centralBodies) ==
    bodyIteratorLoop(AssemblyRun(bodies, interps, next),
                     selectedAccelerationPerBody, centralBodies,
                     SortedKeys(DOMAIN selectedAccelerationPerBody), 1)

\* What the caller gets: the map of line 556, or the exception and no map.
AssemblyResult(run) ==
    IF run.error = "none"
    THEN [ok |-> TRUE, error |-> "none", accelerationModelMap |-> run.accelerationModelMap]
    ELSE [ok |-> FALSE, error |-> run.error]

(***************************************************************************)
(* SpecAssembly: one call of createAccelerationModelsMap                   *)
(***************************************************************************)
MaxSettingsPerPair == 1

AssemblyUndergoingNames == {"Sat", AbsentName}

AssemblyExertingNames == {"Earth", "Moon", AbsentName}

AssemblySettingsInputs == {AccelerationSettings(central_gravity)}

AssemblyLists ==
    UNION {[1..n -> AssemblySettingsInputs] : n \in 0..MaxSettingsPerPair}

AssemblyInnerMaps ==
    UNION {[keys -> AssemblyLists] : keys \in SUBSET AssemblyExertingNames}

AssemblySelectedMaps ==
    UNION {[keys -> AssemblyInnerMaps] : keys \in SUBSET AssemblyUndergoingNames}

\* Every undergoing body has a central body; Sat's is Earth, an inertial frame
\* or a body that is not there.
AssemblyCentralBodies ==
    {[n \in AssemblyUndergoingNames |-> IF n = "Sat" THEN c ELSE "SSB"] :
        c \in {"Earth", "SSB", AbsentName}}

\* Earth has a gravity field, an atmosphere and a shape; Moon may lack a
\* gravity field; Sat and Moon have aerodynamic coefficients.
AssemblyEnvironments ==
    {[n \in BodyNames |->
        [BareBody(n) EXCEPT
            !.gravityFieldModel = IF n = "Moon" /\ ~field THEN NoField ELSE PointField,
            !.aerodynamicCoefficientInterface = (n # "Earth"),
            !.atmosphereModel = (n = "Earth"),
            !.shapeModel = (n = "Earth")]] :
        field \in BOOLEAN}

InitAssembly ==
    /\ bodyMap \in AssemblyEnvironments
    /\ interpolators = NoInterpolators
    /\ nextObject = 1
    /\ call = NoCall
    /\ numberOfCalls = 0

CallCreateAccelerationModelsMap(selected, centralBodies) ==
    /\ numberOfCalls = 0
    /\ LET run == createAccelerationModelsMap(bodyMap, interpolators, nextObject,
                                              selected, centralBodies)
       IN  /\ call' = [function |-> "createAccelerationModelsMap",
                       selectedAccelerationPerBody |-> selected,
                       centralBodies |-> centralBodies,
                       attempts |-> run.attempts,
                       result |-> AssemblyResult(run)]
           /\ bodyMap' = run.bodyMap
           /\ interpolators' = run.interpolators
           /\ nextObject' = run.nextObject
    /\ numberOfCalls' = numberOfCalls + 1

NextAssembly ==
    \E selected \in AssemblySelectedMaps, centralBodies \in AssemblyCentralBodies :
        CallCreateAccelerationModelsMap(selected, centralBodies)

SpecAssembly == InitAssembly /\ [][NextAssembly]_vars

(***************************************************************************)
(* Properties of the assembly (SpecAssembly)                               *)
(***************************************************************************)
IsAssembly == call.function = "createAccelerationModelsMap"

Registered(name) == name \in DOMAIN bodyMap

\* Some undergoing or exerting name of the selected map is not in the body map.
AbsentNameSelected ==
    \E u \in DOMAIN call.selectedAccelerationPerBody :
        \/ ~Registered(u)
        \/ \E e \in DOMAIN call.selectedAccelerationPerBody[u] : ~Registered(e)

\* No map has been handed to the caller.
NoMapReturned == ~call.result.ok /\ "accelerationModelMap" \notin DOMAIN call.result

\* The place of a name in the order in which the maps are iterated.
KeyIndex(name) == CHOOSE i \in 1..Len(NameOrder) : NameOrder[i] = name

C5_BuildFailureReturnsNoMap ==
    IsAssembly =>
        \A i \in 1..Len(call.attempts) :
            ~call.attempts[i].result.ok =>
                /\ NoMapReturned
                /\ call.result.error = call.attempts[i].result.error
                /\ i = Len(call.attempts)

C5_Witness ==
    /\ IsAssembly
    /\ Len(call.attempts) = 2
    /\ call.attempts[1].result.ok
    /\ call.attempts[1].exerting = "Earth"
    /\ ~call.attempts[2].result.ok
    /\ call.attempts[2].exerting = "Moon"
    /\ call.attempts[2].result.error = MissingCapability
    /\ NoMapReturned

\* The exerting names under an undergoing name whose settings list is empty.
EmptyPairs(u) ==
    {e \in DOMAIN call.selectedAccelerationPerBody[u] :
        call.selectedAccelerationPerBody[u][e] = <<>>}

\* C16 as stated: on success the returned map has the undergoing keys of the
\* selected map, under each of them the same exerting keys, and for each pair
\* as many models as the pair has settings, pairs with no settings included.
C16_ResultMirrorsSelectedMap ==
    (IsAssembly /\ call.result.ok) =>
        LET selected == call.selectedAccelerationPerBody
            models == call.result.accelerationModelMap
        IN  /\ DOMAIN models = DOMAIN selected
            /\ \A u \in DOMAIN selected :
                   /\ DOMAIN models[u] = DOMAIN selected[u]
                   /\ \A e \in DOMAIN selected[u] :
                          Len(models[u][e]) = Len(selected[u][e])

\* C16 amended: on success the returned map has the undergoing keys of the
\* selected map; under each of them it has exactly the exerting keys whose
\* settings list is not empty (an entry is made by the first model appended),
\* and for each of those pairs as many models as the pair has settings.
C16_ResultMirrorsNonEmptyPairs ==
    (IsAssembly /\ call.result.ok) =>
        LET selected == call.selectedAccelerationPerBody
            models == call.result.accelerationModelMap
        IN  /\ DOMAIN models = DOMAIN selected
            /\ \A u \in DOMAIN selected :
                   /\ DOMAIN models[u] = DOMAIN selected[u] \ EmptyPairs(u)
                   /\ \A e \in DOMAIN models[u] :
                          Len(models[u][e]) = Len(selected[u][e])

C16_Witness ==
    /\ IsAssembly
    /\ call.result.ok
    /\ \E u \in DOMAIN call.selectedAccelerationPerBody :
           /\ EmptyPairs(u) # {}
           /\ DOMAIN call.result.accelerationModelMap[u] # {}
           /\ EmptyPairs(u) \cap DOMAIN call.result.accelerationModelMap[u] = {}

\* The central body named for an undergoing body is neither an inertial frame
\* nor a body of the body map.
UnresolvableCentralBody(u) ==
    /\ ~isFrameInertial(call.centralBodies[u])
    /\ ~Registered(call.centralBodies[u])

\* C17: the central body of an undergoing body is looked up in the body map
\* only when its name is not an inertial frame name: a non-inertial central
\* body that is absent makes the call fail with a lookup error, before any model
\* is built for that undergoing body, and an inertial central body name causes
\* no lookup failure although no body of that name exists (with inertial or
\* present central bodies a lookup error comes from an absent undergoing or
\* exerting name only).
C17_CentralBodyLookedUpWhenNonInertial ==
    IsAssembly =>
        /\ \A u \in DOMAIN call.selectedAccelerationPerBody :
               UnresolvableCentralBody(u) =>
                   /\ NoMapReturned
                   /\ call.result.error = LookupError
                   /\ \A i \in 1..Len(call.attempts) : call.attempts[i].undergoing # u
        /\ (\A u \in DOMAIN call.selectedAccelerationPerBody :
                ~UnresolvableCentralBody(u))
               => (call.result.error = LookupError => AbsentNameSelected)

C17_Witness ==
    /\ IsAssembly
    /\ "Sat" \in DOMAIN call.selectedAccelerationPerBody
    /\ "Earth" \in DOMAIN call.selectedAccelerationPerBody["Sat"]
    /\ call.selectedAccelerationPerBody["Sat"]["Earth"] # <<>>
    /\ ~AbsentNameSelected
    /\ UnresolvableCentralBody("Sat")
    /\ call.result.error = LookupError
    /\ call.attempts = <<>>

(***************************************************************************)
(* One aerodynamic or radiation pressure build on bodies whose equipment   *)
(* varies piece by piece (SpecCapabilities)                                *)
(***************************************************************************)
\* Sat may own aerodynamic coefficients and radiation pressure interfaces
\* keyed by Earth and/or Moon; Earth may own an atmosphere and a shape model,
\* independently of each other; Moon owns neither.
CapabilityEnvironments ==
    {[n \in BodyNames |->
        [BareBody(n) EXCEPT
            !.gravityFieldModel = PointField,
            !.aerodynamicCoefficientInterface = (n = "Sat" /\ coefficients),
            !.atmosphereModel = (n = "Earth" /\ atmosphere),
            !.shapeModel = (n = "Earth" /\ shape),
            !.radiationPressureInterfaces = IF n = "Sat" THEN sources ELSE {}]] :
        coefficients \in BOOLEAN, atmosphere \in BOOLEAN, shape \in BOOLEAN,
        sources \in SUBSET {"Earth", "Moon"}}

CapabilitySettingsInputs ==
    {AccelerationSettings(aerodynamic),
     AccelerationSettings(cannon_ball_radiation_pressure)}

InitCapabilities ==
    /\ bodyMap \in CapabilityEnvironments
    /\ interpolators = NoInterpolators
    /\ nextObject = 1
    /\ call = NoCall
    /\ numberOfCalls = 0

CallCapabilityBuild(settings, nameU, nameE, nameC) ==
    /\ numberOfCalls = 0
    /\ InvokeCreateAccelerationModel(
           "new",
           createAccelerationModel(bodyMap, interpolators, nextObject,
                                   settings, nameU, nameE, nameC),
           settings, nameU, nameE, nameC)

CallCapabilityBuildLegacy(settings, nameU, nameE, nameC) ==
    /\ numberOfCalls = 0
    /\ InvokeCreateAccelerationModel(
           "legacy",
           createAccelerationModelLegacy(bodyMap, interpolators, nextObject,
                                         settings, nameU, nameE, nameC),
           settings, nameU, nameE, nameC)

NextCapabilities ==
    \E settings \in CapabilitySettingsInputs, nameE \in {"Earth", "Moon"},
       nameC \in {"Earth", "SSB"} :
        \/ CallCapabilityBuild(settings, "Sat", nameE, nameC)
        \/ CallCapabilityBuildLegacy(settings, "Sat", nameE, nameC)

SpecCapabilities == InitCapabilities /\ [][NextCapabilities]_vars

(***************************************************************************)
(* Properties of the capability checks (SpecCapabilities)                  *)
(***************************************************************************)
IsAerodynamicBuild ==
    IsDispatch /\ call.settings.accelerationType_ = aerodynamic

\* C14: an aerodynamic build fails (missing capability, no model) whenever the
\* undergoing body has no aerodynamic coefficient interface, or the exerting
\* body has no atmosphere model, or the exerting body has no shape model; when
\* all three are present it returns a model.
C14_AerodynamicCapabilities ==
    IsAerodynamicBuild =>
        IF /\ bodyMap[call.undergoing].aerodynamicCoefficientInterface
           /\ bodyMap[call.exerting].atmosphereModel
           /\ bodyMap[call.exerting].shapeModel
        THEN /\ call.result.ok
             /\ call.result.model # NoModel
             /\ call.result.model.type = aerodynamic
        ELSE /\ ~call.result.ok
             /\ call.result.model = NoModel
             /\ call.result.error = MissingCapability

C14_Witness ==
    /\ IsAerodynamicBuild
    /\ bodyMap[call.undergoing].aerodynamicCoefficientInterface
    /\ bodyMap[call.exerting].atmosphereModel
    /\ ~bodyMap[call.exerting].shapeModel
    /\ ~call.result.ok

\* C29: an aerodynamic build that fails on a missing capability leaves the
\* bodies as they were: the three capability checks come before the flight
\* conditions are made, so no flight conditions object is attached to an
\* undergoing body that had none, and no object is created.
C29_FailedAerodynamicBuildLeavesBodies ==
    [][(IsAerodynamicBuild' /\ ~call'.result.ok)
           => /\ call'.result.error = MissingCapability
              /\ bodyMap' = bodyMap
              /\ bodyMap'[call'.undergoing].flightConditions
                     = bodyMap[call'.undergoing].flightConditions
              /\ nextObject' = nextObject]_vars

\* A build that passes the first two checks and fails on the last one, on an
\* undergoing body without flight conditions.
C29_Witness ==
    /\ IsAerodynamicBuild
    /\ ~call.result.ok
    /\ call.result.error = MissingCapability
    /\ bodyMap[call.undergoing].aerodynamicCoefficientInterface
    /\ bodyMap[call.exerting].atmosphereModel
    /\ ~bodyMap[call.exerting].shapeModel
    /\ bodyMap[call.undergoing].flightConditions = 0
    /\ nextObject = 1

IsCannonballBuild ==
    IsDispatch /\ call.settings.accelerationType_ = cannon_ball_radiation_pressure

\* C15: a cannon_ball_radiation_pressure build fails exactly when the
\* undergoing body owns no radiation pressure interface keyed by the exerting
\* body's name (an interface keyed by another name does not count); when the
\* keyed interface is present the build returns a model.
C15_CannonballExactlyWhenKeyed ==
    IsCannonballBuild =>
        (call.result.ok
            <=> call.exerting \in bodyMap[call.undergoing].radiationPressureInterfaces)

\* The type tags each generation of createAccelerationModel has a case for.
RecognizedTypes(version) ==
    IF version = "new"
    THEN GravityTypes \cup {aerodynamic, cannon_ball_radiation_pressure, thrust_acceleration}
    ELSE {central_gravity, spherical_harmonic_gravity, aerodynamic,
          cannon_ball_radiation_pressure}

\* C21: createAccelerationModel hands the settings to the builder of their
\* type tag and returns that builder's model; the "acceleration model not
\* recognized" error is raised only for a tag the generation has no case for,
\* never for a recognized tag.
C21_NotRecognizedOnlyForUnknownTag ==
    IsDispatch =>
        /\ call.result.error = NotRecognized
               => call.settings.accelerationType_ \notin RecognizedTypes(call.version)
        /\ call.result.ok => call.result.model.type = call.settings.accelerationType_

(***************************************************************************)
(* The assembler of the newer code, which is not among the files: for      *)
(* every pair the exerting body is looked up, the ordering is run on the   *)
(* pair's settings, and the ordered entries are built from left to right   *)
(* by the newer createAccelerationModel.                                   *)
(***************************************************************************)
RECURSIVE orderedAccelerationListLoop(_, _, _, _, _, _)
orderedAccelerationListLoop(run, accelerationList, i, bodyUndergoingAcceleration, bodyExertingAcceleration, currentCentralBodyName) ==
    IF run.error # "none" \/ i > Len(accelerationList)
    THEN run
    ELSE orderedAccelerationListLoop(
             afterBuild(run,
                        createAccelerationModel(
                            run.bodyMap, run.interpolators, run.nextObject,
                            accelerationList[i], bodyUndergoingAcceleration,
                            bodyExertingAcceleration, currentCentralBodyName),
                        accelerationList[i], bodyUndergoingAcceleration,
                        bodyExertingAcceleration),
             accelerationList, i + 1, bodyUndergoingAcceleration,
             bodyExertingAcceleration, currentCentralBodyName)

\* One pair: look the exerting body up, order the settings, build them.
buildOrderedPair(run, accelerationList, bodyUndergoingAcceleration, bodyExertingAcceleration, currentCentralBodyName) ==
    LET checked == checkBodyExertingAcceleration(run, bodyExertingAcceleration)
        ordered == orderAccelerationList(accelerationList)
    IN  IF checked.error # "none"
        THEN checked
        ELSE IF ~ordered.ok
        THEN [checked EXCEPT !.error = ordered.error]
        ELSE orderedAccelerationListLoop(checked, ordered.list, 1,
                                         bodyUndergoingAcceleration,
                                         bodyExertingAcceleration,
                                         currentCentralBodyName)

RECURSIVE orderedBody2IteratorLoop(_, _, _, _, _, _)
orderedBody2IteratorLoop(run, accelerationsForBody, keys, k, bodyUndergoingAcceleration, currentCentralBodyName) ==
    IF run.error # "none" \/ k > Len(keys)
    THEN run
    ELSE orderedBody2IteratorLoop(
             buildOrderedPair(run, accelerationsForBody[keys[k]],
                              bodyUndergoingAcceleration, keys[k],
                              currentCentralBodyName),
             accelerationsForBody, keys, k + 1,
             bodyUndergoingAcceleration, currentCentralBodyName)

RECURSIVE orderedBodyIteratorLoop(_, _, _, _, _)
orderedBodyIteratorLoop(run, selectedAccelerationPerBody, centralBodies, keys, j) ==
    IF run.error # "none" \/ j > Len(keys)
    THEN run
    ELSE LET resolved == resolveBodies(run, keys[j], centralBodies)
             done == IF resolved.error # "none"
                     THEN resolved
                     ELSE orderedBody2IteratorLoop(
                              resolved, selectedAccelerationPerBody[keys[j]],
                              SortedKeys(DOMAIN selectedAccelerationPerBody[keys[j]]), 1,
                              keys[j], centralBodies[keys[j]])
         IN  orderedBodyIteratorLoop(
                 IF done.error # "none"
                 THEN done
                 ELSE [done EXCEPT !.accelerationModelMap =
                                       (keys[j] :> done.mapOfAccelerationsForBody) @@ @],
                 selectedAccelerationPerBody, centralBodies, keys, j + 1)

createAccelerationModelsMapOrdered(bodies, interps, next, selectedAccelerationPerBody, centralBodies) ==
    orderedBodyIteratorLoop(AssemblyRun(bodies, interps, next),
                            selectedAccelerationPerBody, centralBodies,
                            SortedKeys(DOMAIN selectedAccelerationPerBody), 1)

(***************************************************************************)
(* SpecOrderedAssembly: one call of the newer assembler on pairs of        *)
(* aerodynamic and thrust settings                                         *)
(***************************************************************************)
MaxPairLen == 3

\* Sat may own aerodynamic coefficients; Earth has an atmosphere and a shape,
\* Moon has neither.
OrderedAssemblyEnvironments ==
    {[n \in BodyNames |->
        [BareBody(n) EXCEPT
            !.gravityFieldModel = PointField,
            !.aerodynamicCoefficientInterface = (n = "Sat" /\ coefficients),
            !.atmosphereModel = (n = "Earth"),
            !.shapeModel = (n = "Earth")]] :
        coefficients \in BOOLEAN}

\* The i-th settings object of a list: aerodynamic settings, or thrust settings
\* without interpolator whose guidance becomes the body's orientation calculator.
PairSettingsObject(type, id) ==
    (IF type = thrust_acceleration
     THEN ThrustAccelerationSettings(0, unspecified_thurst_frame, "Earth",
                                     custom_thrust_direction, {}, {})
     ELSE AccelerationSettings(type)) @@ [object |-> id]

PairLists ==
    UNION {{[i \in 1..n |-> PairSettingsObject(types[i], i)] :
                types \in [1..n -> {aerodynamic, thrust_acceleration}]} :
               n \in 0..MaxPairLen}

OrderedAssemblySelectedMaps ==
    UNION {{[u \in {"Sat"} |-> inner] : inner \in [keys -> PairLists]} :
               keys \in SUBSET {"Earth", "Moon"}}

InitOrderedAssembly ==
    /\ bodyMap \in OrderedAssemblyEnvironments
    /\ interpolators = NoInterpolators
    /\ nextObject = 1
    /\ call = NoCall
    /\ numberOfCalls = 0

CallCreateAccelerationModelsMapOrdered(selected, centralBodies) ==
    /\ numberOfCalls = 0
    /\ LET run == createAccelerationModelsMapOrdered(bodyMap, interpolators, nextObject,
                                                     selected, centralBodies)
       IN  /\ call' = [function |-> "createAccelerationModelsMapOrdered",
                       selectedAccelerationPerBody |-> selected,
                       centralBodies |-> centralBodies,
                       attempts |-> run.attempts,
                       result |-> AssemblyResult(run)]
           /\ bodyMap' = run.bodyMap
           /\ interpolators' = run.interpolators
           /\ nextObject' = run.nextObject
    /\ numberOfCalls' = numberOfCalls + 1

NextOrderedAssembly ==
    \E selected \in OrderedAssemblySelectedMaps, central \in {"Earth", "SSB"} :
        CallCreateAccelerationModelsMapOrdered(selected, [u \in {"Sat"} |-> central])

SpecOrderedAssembly == InitOrderedAssembly /\ [][NextOrderedAssembly]_vars

(***************************************************************************)
(* Properties of the newer assembler (SpecOrderedAssembly)                 *)
(***************************************************************************)
IsOrderedAssembly == call.function = "createAccelerationModelsMapOrdered"

\* The builds made for one pair, in the order in which they were made.
AttemptsOfPair(u, e) ==
    SelectSeq(call.attempts, LAMBDA made : made.undergoing = u /\ made.exerting = e)

\* C22: the assembler orders each pair's settings before building and builds
\* the pair's models from left to right in the ordered sequence: the i-th model
\* of the pair comes from the i-th entry of the ordered sequence, and for a
\* pair with both kinds the aerodynamic model is built before every thrust
\* model of that pair.
C22_AerodynamicBuiltBeforeThrust ==
    (IsOrderedAssembly /\ call.result.ok) =>
        \A p \in PairsOf(call.selectedAccelerationPerBody) :
            LET given == call.selectedAccelerationPerBody[p[1]][p[2]]
                made == AttemptsOfPair(p[1], p[2])
            IN  /\ Len(made) = Len(given)
                /\ \A i \in 1..Len(made) :
                       made[i].settings = orderAccelerationList(given).list[i]
                /\ \A i, j \in 1..Len(made) :
                       (made[i].settings.accelerationType_ = aerodynamic
                            /\ made[j].settings.accelerationType_ = thrust_acceleration)
                           => i < j

(***************************************************************************)
(* SpecThrust: one thrust build, over every thrust frame, central body,    *)
(* interpolator and pair of update reports                                 *)
(***************************************************************************)
\* A value of the thrust frame enumeration that createThrustAcceleratioModel has
\* no branch for.
other_thrust_frame == "other_thrust_frame"

ThrustFrames ==
    {unspecified_thurst_frame, inertial_thurst_frame, lvlh_thrust_frame,
     rtn_thrust_frame, other_thrust_frame}

\* The (update category, body name) pairs a guidance or magnitude builder may
\* report.
UpdateRequirements ==
    {<<"body_mass_update", "Sat">>, <<"vehicle_flight_conditions_update", "Sat">>}

ThrustSettingsInputs ==
    {ThrustAccelerationSettings(interpolator, frame, central, custom_thrust_direction,
                                directionUpdates, magnitudeUpdates) :
        interpolator \in {0, 1}, frame \in ThrustFrames,
        central \in {"Earth", "SSB", AbsentName},
        directionUpdates \in SUBSET UpdateRequirements,
        magnitudeUpdates \in SUBSET UpdateRequirements}

InitThrust ==
    /\ bodyMap \in {[n \in BodyNames |-> BareBody(n)]}
    /\ interpolators = [i \in {1} |-> UnboundInterpolator]
    /\ nextObject = 2
    /\ call = NoCall
    /\ numberOfCalls = 0

CallCreateThrustAcceleratioModel(settings, nameU, nameE) ==
    /\ numberOfCalls = 0
    /\ InvokeCreateAccelerationModel(
           "new",
           createAccelerationModel(bodyMap, interpolators, nextObject,
                                   settings, nameU, nameE, "SSB"),
           settings, nameU, nameE, "SSB")

NextThrust ==
    \E settings \in ThrustSettingsInputs :
        CallCreateThrustAcceleratioModel(settings, "Sat", "Sat")

SpecThrust == InitThrust /\ [][NextThrust]_vars

(***************************************************************************)
(* Properties of a thrust build (SpecThrust)                               *)
(***************************************************************************)
IsThrustBuild ==
    IsDispatch /\ call.settings.accelerationType_ = thrust_acceleration

\* The thrust build failed and made nothing: no model, no guidance attached,
\* the interpolator as the caller supplied it.
ThrustBuildRefused ==
    /\ ~call.result.ok
    /\ call.result.model = NoModel
    /\ bodyMap[call.undergoing].dependentOrientationCalculator = 0
    /\ interpolators[call.settings.interpolatorInterface_] = UnboundInterpolator

\* C23: for thrust settings that carry a direction interpolator: with the lvlh
\* or rtn thrust frame the rotation function made of the vehicle's state and
\* the central body's state (the zero state for an inertial central body) is
\* bound into the interpolator and the thrust model is built; with the
\* inertial thrust frame the model is built and nothing is bound; with an
\* unspecified or unrecognized frame, or with a non-inertial central body that
\* is absent from the body map, the build fails and returns no model.
C23_RotationFunctionByFrame ==
    (IsThrustBuild /\ call.settings.interpolatorInterface_ # 0) =>
        LET settings == call.settings
            interpolator == interpolators[settings.interpolatorInterface_]
        IN  IF settings.thrustFrame_ \in {lvlh_thrust_frame, rtn_thrust_frame}
            THEN IF ~isFrameInertial(settings.centralBody_)
                      /\ ~Registered(settings.centralBody_)
                 THEN ThrustBuildRefused
                 ELSE /\ call.result.ok
                      /\ call.result.model.interpolator = settings.interpolatorInterface_
                      /\ interpolator.frame = settings.thrustFrame_
                      /\ interpolator.vehicle = call.undergoing
                      /\ interpolator.centralBody =
                             IF settings.centralBody_ \in InertialNames
                             THEN "zero" ELSE settings.centralBody_
            ELSE IF settings.thrustFrame_ = inertial_thurst_frame
            THEN /\ call.result.ok
                 /\ interpolator = UnboundInterpolator
            ELSE ThrustBuildRefused

C23_Witness ==
    /\ IsThrustBuild
    /\ call.settings.interpolatorInterface_ # 0
    /\ call.settings.thrustFrame_ = rtn_thrust_frame
    /\ call.settings.centralBody_ = "SSB"
    /\ call.result.ok
    /\ interpolators[call.settings.interpolatorInterface_].centralBody = "zero"
    /\ interpolators[call.settings.interpolatorInterface_].vehicle = "Sat"

IterationLimit == 10000

IterationLimitError == "IterationLimitError"   \* "ephemeris update order determination now at iteration"

\* std::find followed by std::distance from begin( ): the 0-based place of the
\* first occurrence, the size of the vector when there is none (end( )).
findIndex(vector, name) ==
    IF \E i \in 1..Len(vector) : vector[i] = name
    THEN (CHOOSE i \in 1..Len(vector) :
              /\ vector[i] = name
              /\ \A k \in 1..Len(vector) : vector[k] = name => i <= k) - 1
    ELSE Len(vector)

\* iterator != end( )
isInList(vector, name) == findIndex(vector, name) # Len(vector)

\* Variant: the first element is erased whatever the index.
erase_First(vector, index) == Tail(vector)

\* vector.erase( vector.begin( ) + index ), index 0-based.
erase(vector, index) ==
    [i \in 1..(Len(vector) - 1) |-> IF i <= index THEN vector[i] ELSE vector[i + 1]]

std_min(a, b) == IF b < a THEN b ELSE a

\* Variant: a body is free as soon as its central body is not in the list.
hasNoDependency_CentralBodyOnly(integratedBodies, centralBody, ephemerisOrigin) ==
    ~isInList(integratedBodies, centralBody)

\* Lines 37-38: neither the central body nor the ephemeris origin of the
\* current body is in the list of bodies still to handle.
hasNoDependency(integratedBodies, centralBody, ephemerisOrigin) ==
    /\ ~isInList(integratedBodies, centralBody)
    /\ ~isInList(integratedBodies, ephemerisOrigin)

\* Lines 59-90: where the next pass starts when the current body has to wait.
nextIndex(integratedBodies, centralBody, ephemerisOrigin) ==
    IF isInList(integratedBodies, centralBody) /\ isInList(integratedBodies, ephemerisOrigin)
    THEN std_min(findIndex(integratedBodies, centralBody),
                 findIndex(integratedBodies, ephemerisOrigin))
    ELSE IF isInList(integratedBodies, centralBody)
    THEN findIndex(integratedBodies, centralBody)
    ELSE findIndex(integratedBodies, ephemerisOrigin)

\* Lines 15-20: the locals before the loop.
beforeLoop(integratedBodies, centralBodies, ephemerisOrigins) ==
    [function |-> "determineEphemerisUpdateorder",
     given |-> [integratedBodies |-> integratedBodies,
                centralBodies |-> centralBodies,
                ephemerisOrigins |-> ephemerisOrigins],
     integratedBodies |-> integratedBodies,
     centralBodies |-> centralBodies,
     ephemerisOrigins |-> ephemerisOrigins,
     updateOrder |-> <<>>,
     isFinished |-> FALSE,
     currentIndex |-> 0,
     counter |-> 0,
     pc |-> "while",
     error |-> "none"]

\* Lines 94-99: the counter is stepped and tested at the end of every pass,
\* the last one included; then the loop condition is tested.
endOfPass(state) ==
    LET counted == [state EXCEPT !.counter = @ + 1]
    IN  IF counted.counter > IterationLimit
        THEN [counted EXCEPT !.pc = "thrown", !.error = IterationLimitError]
        ELSE IF counted.isFinished
        THEN [counted EXCEPT !.pc = "returned"]
        ELSE counted

\* Lines 27-99: one pass of the while loop.  vector::at throws for an index
\* that is not below the size.
whileBody(state) ==
    LET index == state.currentIndex
    IN  IF index >= Len(state.centralBodies) \/ index >= Len(state.ephemerisOrigins)
        THEN [state EXCEPT !.pc = "thrown", !.error = OutOfRange]
        ELSE IF hasNoDependency(state.integratedBodies,
                                state.centralBodies[index + 1],
                                state.ephemerisOrigins[index + 1])
        THEN IF index >= Len(state.integratedBodies)
             THEN [state EXCEPT !.pc = "thrown", !.error = OutOfRange]
             ELSE endOfPass(
                      [state EXCEPT
                          !.updateOrder = Append(@, state.integratedBodies[index + 1]),
                          !.integratedBodies = erase(@, index),
                          !.centralBodies = erase(@, index),
                          !.ephemerisOrigins = erase(@, index),
                          !.currentIndex = 0,
                          !.isFinished = (Len(state.integratedBodies) = 1)])
        ELSE endOfPass(
                 [state EXCEPT
                     !.currentIndex = nextIndex(state.integratedBodies,
                                                state.centralBodies[index + 1],
                                                state.ephemerisOrigins[index + 1])])

(***************************************************************************)
(* SpecUpdateOrder: one call of determineEphemerisUpdateorder              *)
(***************************************************************************)
ChainLength == 141

NotIntegrated == 0

\* The vectors of distinct names over a set of names.
DistinctVectors(names) ==
    UNION {{v \in [1..Cardinality(chosen) -> chosen] :
                \A i, k \in 1..Cardinality(chosen) : v[i] = v[k] => i = k} :
               chosen \in SUBSET names}

UpdateOrderInput(integratedBodies, centralBodies, ephemerisOrigins) ==
    [integratedBodies |-> integratedBodies,
     centralBodies |-> centralBodies,
     ephemerisOrigins |-> ephemerisOrigins]

\* Every input, of equal-length lists, over the given names.
InputsOver(names) ==
    UNION {{UpdateOrderInput(v, c, e) :
                c \in [1..Len(v) -> names \cup {NotIntegrated}],
                e \in [1..Len(v) -> names \cup {NotIntegrated}]} :
               v \in DistinctVectors(names)}

\* The bodies of S that wait for no body of S.
FreeBodies(input, S) ==
    {input.integratedBodies[i] : i \in
        {k \in 1..Len(input.integratedBodies) :
            /\ input.integratedBodies[k] \in S
            /\ input.centralBodies[k] \notin S
            /\ input.ephemerisOrigins[k] \notin S}}

\* What is left of S when the free bodies are taken away again and again.
RECURSIVE Remainder(_, _)
Remainder(input, S) ==
    IF FreeBodies(input, S) = {} THEN S ELSE Remainder(input, S \ FreeBodies(input, S))

\* The dependency relation (a body waits for its central body and for its
\* ephemeris origin when these are integrated) has no cycle.
Acyclic(input) ==
    Remainder(input, {input.integratedBodies[i] : i \in 1..Len(input.integratedBodies)}) = {}

\* A chain listed from the dependent end: body i has body i + 1 as central
\* body, the last body has the origin that is not integrated.
LongChain ==
    UpdateOrderInput([i \in 1..ChainLength |-> i],
                     [i \in 1..ChainLength |-> IF i < ChainLength THEN i + 1 ELSE NotIntegrated],
                     [i \in 1..ChainLength |-> NotIntegrated])

\* Two bodies that wait for each other: through their central bodies, and
\* through a central body one way and an ephemeris origin the other way.
TwoCycles ==
    {UpdateOrderInput(<<1, 2>>, <<2, 1>>, <<NotIntegrated, NotIntegrated>>),
     UpdateOrderInput(<<1, 2>>, <<2, NotIntegrated>>, <<NotIntegrated, 1>>)}

\* The inputs over the given names in which every body's central body and
\* ephemeris origin is not integrated or has a smaller name: the relation has
\* no cycle, and the bodies are listed in every order.
DownwardVectors(v, names) ==
    {c \in [1..Len(v) -> names \cup {NotIntegrated}] :
        \A i \in 1..Len(v) : c[i] = NotIntegrated \/ c[i] < v[i]}

DownwardInputsOver(names) ==
    UNION {{UpdateOrderInput(v, c, e) :
                c \in DownwardVectors(v, names), e \in DownwardVectors(v, names)} :
               v \in DistinctVectors(names)}

\* Inputs over three bodies whose relation has no cycle (the empty input
\* included), every input of a single body (which may be its own central body
\* or ephemeris origin), and the two-body cycles.
UpdateOrderInputs ==
    DownwardInputsOver({1, 2, 3})
        \cup InputsOver({1})
        \cup TwoCycles

\* The long chain, next to the one-body inputs and the two-body cycles.
LongChainInputs == InputsOver({1}) \cup TwoCycles \cup {LongChain}

InitUpdateOrder ==
    /\ bodyMap = [n \in BodyNames |-> BareBody(n)]
    /\ interpolators = NoInterpolators
    /\ nextObject = 1
    /\ call = NoCall
    /\ numberOfCalls = 0

CallDetermineEphemerisUpdateorder(input) ==
    /\ numberOfCalls = 0
    /\ call' = beforeLoop(input.integratedBodies, input.centralBodies,
                          input.ephemerisOrigins)
    /\ numberOfCalls' = numberOfCalls + 1
    /\ UNCHANGED <<bodyMap, interpolators, nextObject>>

WhilePass ==
    /\ call.function = "determineEphemerisUpdateorder"
    /\ call.pc = "while"
    /\ call' = whileBody(call)
    /\ UNCHANGED <<bodyMap, interpolators, nextObject, numberOfCalls>>

NextUpdateOrder ==
    \/ \E input \in UpdateOrderInputs : CallDetermineEphemerisUpdateorder(input)
    \/ WhilePass

SpecUpdateOrder == InitUpdateOrder /\ [][NextUpdateOrder]_vars

NextLongChain ==
    \/ \E input \in LongChainInputs : CallDetermineEphemerisUpdateorder(input)
    \/ WhilePass

SpecLongChain == InitUpdateOrder /\ [][NextLongChain]_vars

(***************************************************************************)
(* Properties of determineEphemerisUpdateorder                              *)
(***************************************************************************)
IsUpdateOrderCall ==
    /\ call.function = "determineEphemerisUpdateorder"
    /\ Len(call.given.integratedBodies) > 0

\* C25: on non-empty, equal-length lists with distinct body names the function
\* terminates: it makes no more passes than the iteration limit allows, it
\* returns a complete update order when the dependency relation has no cycle,
\* and it throws the iteration limit error, and only that, when the relation
\* has a cycle (a body that is its own central body or origin included).
C25_ReturnsExactlyWhenAcyclic ==
    IsUpdateOrderCall =>
        /\ call.counter <= IterationLimit + 1
        /\ call.pc = "returned" =>
               /\ Acyclic(call.given)
               /\ Len(call.updateOrder) = Len(call.given.integratedBodies)
        /\ call.pc = "thrown" =>
               /\ call.error = IterationLimitError
               /\ ~Acyclic(call.given)

\* The names in a vector.
Names(vector) == {vector[i] : i \in 1..Len(vector)}

\* The place of a body among the integrated bodies as they were given.
GivenIndex(body) ==
    CHOOSE i \in 1..Len(call.given.integratedBodies) :
        call.given.integratedBodies[i] = body

\* The names a body waits for: its central body and its ephemeris origin, as
\* far as they are integrated bodies.
Dependencies(body) ==
    {call.given.centralBodies[GivenIndex(body)],
     call.given.ephemerisOrigins[GivenIndex(body)]}
        \cap Names(call.given.integratedBodies)

\* C26: every body in the update order stands after its central body and after
\* its ephemeris origin whenever those are integrated bodies; this holds of
\* the order at every pass, so a body is appended only when neither is still
\* among the bodies not yet handled, and it holds of the order returned.
C26_DependenciesComeFirst ==
    IsUpdateOrderCall =>
        \A p \in 1..Len(call.updateOrder) :
            \A dependency \in Dependencies(call.updateOrder[p]) :
                /\ \E q \in 1..(p - 1) : call.updateOrder[q] = dependency
                /\ dependency \notin Names(call.integratedBodies)

C26_Witness ==
    /\ IsUpdateOrderCall
    /\ call.pc = "returned"
    /\ Len(call.updateOrder) = 3
    /\ \E body \in Names(call.updateOrder) :
           /\ Cardinality(Dependencies(body)) = 2
           /\ call.given.integratedBodies[1] = body
           /\ call.updateOrder[3] = body

\* C27: the order returned is a permutation of the integrated bodies given:
\* each of them once, and no other name.  During the loop the three working
\* lists have the same length and stay aligned (at every index the central
\* body and the origin are those given for the body at that index), and the
\* bodies handled and the bodies left make up the given ones, each once.
C27_OrderIsPermutation ==
    IsUpdateOrderCall =>
        /\ Len(call.centralBodies) = Len(call.integratedBodies)
        /\ Len(call.ephemerisOrigins) = Len(call.integratedBodies)
        /\ \A i \in 1..Len(call.integratedBodies) :
               /\ call.integratedBodies[i] \in Names(call.given.integratedBodies)
               /\ call.centralBodies[i]
                      = call.given.centralBodies[GivenIndex(call.integratedBodies[i])]
               /\ call.ephemerisOrigins[i]
                      = call.given.ephemerisOrigins[GivenIndex(call.integratedBodies[i])]
        /\ Names(call.updateOrder) \cup Names(call.integratedBodies)
               = Names(call.given.integratedBodies)
        /\ Len(call.updateOrder) + Len(call.integratedBodies)
               = Len(call.given.integratedBodies)
        /\ call.pc = "returned" =>
               /\ Len(call.updateOrder) = Len(call.given.integratedBodies)
               /\ Names(call.updateOrder) = Names(call.given.integratedBodies)
               /\ \A p, q \in 1..Len(call.updateOrder) :
                      call.updateOrder[p] = call.updateOrder[q] => p = q

C27_Witness ==
    /\ IsUpdateOrderCall
    /\ call.pc = "returned"
    /\ Len(call.updateOrder) = 3
    /\ Names(call.updateOrder) = Names(call.given.integratedBodies)
    /\ call.updateOrder[1] = call.given.integratedBodies[3]
    /\ call.updateOrder[2] = call.given.integratedBodies[1]

(***************************************************************************)
(* SpecThirdBodyMutual: the dedicated and the generic third-body builder   *)
(* for mutual spherical harmonic gravity on the same bodies and settings   *)
(***************************************************************************)
\* Settings of the proper class with central-body degree and order away from
\* and at the constructor's default, and settings of the base class that carry
\* the tag only.
MutualSettingsInputs ==
    {MutualSphericalHarmonicAccelerationSettings(2, 1, 4, 3, 6, 5),
     MutualSphericalHarmonicAccelerationSettings(2, 1, 4, 3, 0, 0),
     AccelerationSettings(mutual_spherical_harmonic_gravity)}

CallThirdBodyMutualBuilders(settings, nameU, nameE, nameC) ==
    /\ numberOfCalls = 0
    /\ call' = [function |-> "createThirdBodyMutualSphericalHarmonicGravityAccelerationModel",
                settings |-> settings, undergoing |-> nameU,
                exerting |-> nameE, centralBody |-> nameC,
                result |->
                    createThirdBodyMutualSphericalHarmonicGravityAccelerationModel(
                        bodyMap[nameU], bodyMap[nameE], bodyMap[nameC],
                        nameU, nameE, nameC, settings),
                generic |->
                    createThirdBodyGravitationalAcceleration(
                        bodyMap[nameU], bodyMap[nameE], bodyMap[nameC],
                        nameU, nameE, nameC, settings)]
    /\ numberOfCalls' = numberOfCalls + 1
    /\ UNCHANGED <<bodyMap, interpolators, nextObject>>

NextThirdBodyMutual ==
    \E settings \in MutualSettingsInputs, nameU \in BodyNames, nameE \in BodyNames,
       nameC \in BodyNames :
        CallThirdBodyMutualBuilders(settings, nameU, nameE, nameC)

SpecThirdBodyMutual == InitGravity /\ [][NextThirdBodyMutual]_vars

(***************************************************************************)
(* Properties of the two third-body builders (SpecThirdBodyMutual)         *)
(***************************************************************************)
IsThirdBodyMutualComparison ==
    call.function = "createThirdBodyMutualSphericalHarmonicGravityAccelerationModel"

\* The degree and order values of one leg.
ExpansionsOf(leg) ==
    <<leg.maximumDegreeOfBodyExertingAcceleration,
      leg.maximumOrderOfBodyExertingAcceleration,
      leg.maximumDegreeOfUndergoingBody,
      leg.maximumOrderOfUndergoingBody>>

\* C30: on the same bodies and settings the dedicated builder
\* createThirdBodyMutualSphericalHarmonicGravityAccelerationModel and the
\* generic createThirdBodyGravitationalAcceleration fail on the same inputs,
\* and when they succeed both legs have the same degree and order values in
\* both; in particular the central body's leg expands the central body's field
\* to the settings' central-body degree and order in both.
C30_DedicatedAndGenericAgree ==
    IsThirdBodyMutualComparison =>
        /\ call.result.ok = call.generic.ok
        /\ call.result.ok =>
               LET dedicated == call.result.model
                   generic == call.generic.model
               IN  /\ ExpansionsOf(dedicated.accelerationModelForBodyUndergoingAcceleration)
                          = ExpansionsOf(generic.accelerationModelForBodyUndergoingAcceleration)
                   /\ ExpansionsOf(dedicated.accelerationModelForCentralBody)
                          = ExpansionsOf(generic.accelerationModelForCentralBody)
                   /\ \A model \in {dedicated, generic} :
                          /\ model.accelerationModelForCentralBody.maximumDegreeOfUndergoingBody
                                 = call.settings.maximumDegreeOfCentralBody_
                          /\ model.accelerationModelForCentralBody.maximumOrderOfUndergoingBody
                                 = call.settings.maximumOrderOfCentralBody_

==========================================================================
